---- MODULE Spec2Model ----
(***************************************************************************)
(* Bidirectional sync between file-based todos and Linear                  *)
(* (src/src/targets/cursor.ts, section "Core bidirectional sync logic").   *)
(*                                                                         *)
(* The directory is a finite map from file slots to todo files, the remote *)
(* tracker a finite map from identifiers to issues.  One reconciliation    *)
(* pass (syncAll) is a process whose steps are the awaited calls of the    *)
(* source; the wall clock (now) advances between any two steps.            *)
(***************************************************************************)
EXTENDS Integers, Sequences, FiniteSets, TLC

\* ------------------------------------------------------------------ bounds
MaxFiles == 4        \* file slots of the todos directory
MaxIssues == 2       \* issues the remote workspace can hold
MaxTime == 3         \* wall clock runs over 1..MaxTime
MaxEdits == 2        \* edits by the user / by remote collaborators
MaxPasses == 2       \* invocations of syncAll
MaxLongEdits == 1    \* edits, in runs of MaxLongPasses passes
MaxLongPasses == 3   \* invocations of syncAll, in runs of MaxLongEdits edits
MaxFailPasses == 1   \* invocations of syncAll when calls may throw
MaxFailures == 1     \* remote calls or file writes that throw
MaxNewFiles == 1     \* hand-written files of the initial directory
MaxCmdEdits == 1     \* edits, in runs of syncAll and the commands
MaxCmdPasses == 2    \* invocations of syncAll or of a command
MaxCliEdits == 1     \* edits, between subcommands
MaxCliPasses == 2    \* invocations of a subcommand
NumStatuses == 3     \* how many statuses of the enumeration are exercised
MaxStates == 2       \* workflow states of a list a helper is applied to
MaxTeams == 2        \* teams of the workspace resolveConfig looks at
MaxPlans == 2        \* plan files next to the todos directory
MaxPlanEdits == 2    \* edits, in runs of the commands on plan files
MaxPlanPasses == 2   \* invocations of a command on a plan file
MaxEntries == 2      \* entries of mcp, permission or tools in an opencode.json
MaxWriterEdits == 1  \* edits of the output root by the user
MaxWriterPasses == 2 \* invocations of writeOpenCodeBundle
MaxCommands == 3     \* commands of a plugin given to convertClaudeToCursor
MaxAgents == 2       \* agents of a plugin given to convertClaudeToCursor
MaxRoundEdits == 1   \* edits that leave status, state and priority alone
MaxRoundPasses == 2  \* passes or commands, in runs of MaxRoundEdits edits

\* --------------------------------------------------------------- constants
Undefined == "<undefined>"
Epoch == 0           \* new Date(0); also "no linear_synced_at"
NoLink == 0          \* no linear_id

StatusOrder == <<"pending", "ready", "complete", "in_progress", "cancelled">>
Statuses == {StatusOrder[i] : i \in 1..NumStatuses}
Priorities == {"p1", "p2", "p3"}
LinearPriorities == 0..4
Titles == {"a", "b"}

\* DEFAULT_STATUS_MAP, in Object.entries order
DEFAULT_STATUS_MAP ==
  << <<"pending", "Triage">>, <<"ready", "Todo">>, <<"in_progress", "In Progress">>,
     <<"complete", "Done">>, <<"cancelled", "Cancelled">> >>

DEFAULT_PRIORITY_MAP == [p1 |-> 1, p2 |-> 2, p3 |-> 3]

\* The team's workflow as api.listStates returns it.  A stock Linear
\* workspace spells its cancelled state "Canceled" and has a "Backlog"
\* state that no local status maps to.
WorkflowStates ==
  << [id |-> 1, name |-> "Triage", type |-> "triage"],
     [id |-> 2, name |-> "Todo", type |-> "unstarted"],
     [id |-> 3, name |-> "Done", type |-> "completed"],
     [id |-> 4, name |-> "Backlog", type |-> "backlog"],
     [id |-> 5, name |-> "In Progress", type |-> "started"],
     [id |-> 6, name |-> "Canceled", type |-> "canceled"] >>

\* state names remote collaborators move issues to
RemoteStateNames == {WorkflowStates[i].name : i \in 1..(NumStatuses + 1)}

\* the state a created issue gets when no stateId is sent
DefaultStateName == "Backlog"

ToLower(s) ==
  CASE s = "Triage" -> "triage"
    [] s = "Todo" -> "todo"
    [] s = "Done" -> "done"
    [] s = "Backlog" -> "backlog"
    [] s = "In Progress" -> "in progress"
    [] s = "Canceled" -> "canceled"
    [] s = "Cancelled" -> "cancelled"
    [] s = "TODO" -> "todo"
    [] s = "DONE" -> "done"
    [] OTHER -> s

\* ----------------------------------------------------------------- mapping
\* the LinearConfig resolveConfig returns
DefaultConfig == [statusMap |-> DEFAULT_STATUS_MAP, priorityMap |-> DEFAULT_PRIORITY_MAP]

\* config.statusMap ?? DEFAULT_STATUS_MAP
StatusMapOf(config) ==
  IF "statusMap" \in DOMAIN config THEN config.statusMap ELSE DEFAULT_STATUS_MAP

\* config.priorityMap ?? DEFAULT_PRIORITY_MAP
PriorityMapOf(config) ==
  IF "priorityMap" \in DOMAIN config THEN config.priorityMap ELSE DEFAULT_PRIORITY_MAP

\* map[status]
MapLookup(map, status) ==
  LET hits == {i \in 1..Len(map) : map[i][1] = status}
  IN IF hits = {} THEN Undefined ELSE map[CHOOSE i \in hits : TRUE][2]

NoState == [id |-> 0, name |-> Undefined]

fileStatusToLinearState(status, states, config) ==
  LET targetName == MapLookup(StatusMapOf(config), status)
      hits == {i \in 1..Len(states) : ToLower(states[i].name) = ToLower(targetName)}
  IN IF targetName = Undefined THEN NoState
     ELSE IF hits = {} THEN NoState
     ELSE states[CHOOSE i \in hits : \A j \in hits : i <= j]

\* a reverse lookup that compares the names as they are spelled
linearStateToFileStatusExact(stateName, config) ==
  LET map == StatusMapOf(config)
      hits == {i \in 1..Len(map) : map[i][2] = stateName}
  IN IF hits = {} THEN Undefined
     ELSE map[CHOOSE i \in hits : \A j \in hits : i <= j][1]

linearStateToFileStatus(stateName, config) ==
  LET map == StatusMapOf(config)
      hits == {i \in 1..Len(map) : ToLower(map[i][2]) = ToLower(stateName)}
  IN IF hits = {} THEN Undefined
     ELSE map[CHOOSE i \in hits : \A j \in hits : i <= j][1]

filePriorityToLinear(priority, config) ==
  LET map == PriorityMapOf(config)
  IN IF priority \in DOMAIN map THEN map[priority] ELSE 3

linearPriorityToFile(priority, config) ==
  IF priority <= 1 THEN "p1" ELSE IF priority = 2 THEN "p2" ELSE "p3"

StateIdOf(name) ==
  LET hits == {i \in 1..Len(WorkflowStates) : WorkflowStates[i].name = name}
  IN IF hits = {} THEN 0 ELSE WorkflowStates[CHOOSE i \in hits : TRUE].id

\* a rename that rebuilds the name whatever its shape
renameTodoFileAnyShape(oldName, newStatus, newPriority) ==
  <<oldName[1], newStatus, newPriority>> \o SubSeq(oldName, 4, Len(oldName))

\* parts = basename.split("-"); fewer than four parts: path kept
renameTodoFile(oldName, newStatus, newPriority) ==
  IF Len(oldName) < 4 THEN oldName
  ELSE <<oldName[1], newStatus, newPriority>> \o SubSeq(oldName, 4, Len(oldName))


\* ------------------------------------------------------------------- state
VARIABLES
  files,              \* the todos directory: slot -> todo file
  issues,             \* the remote workspace: identifier -> issue
  now,                \* wall clock (new Date(), mtime, updatedAt)
  pc,                 \* position of the running syncAll, or idle / done
  dryRun,             \* opts.dryRun of the running pass
  todos,              \* loadTodoFiles snapshot taken when the pass started
  idx,                \* index into todos of the record being processed
  cur,                \* locals of the record being processed
  stamp,              \* value of new Date().toISOString() last taken
  result,             \* the SyncResult being accumulated
  existingLinearIds,  \* Set<string> built by the record loop
  maxIssueId,         \* largest issue_id of the snapshot
  imp,                \* locals of pullNewIssues
  branches,           \* branch taken per record, in order
  hist,               \* outcome of the pass that ended just before this one
  entries,            \* the StatusEntry list getStatus is building
  failed,             \* records (indices) whose step threw in this pass
  edits, passes, failures,
  apiKey,             \* LINEAR_API_KEY is set in the environment
  call,               \* a mapping helper applied on its own: arguments and result
  plans,              \* plan files (docs/plans): slot -> plan frontmatter
  out                 \* the output root writeOpenCodeBundle writes into

vars == <<files, issues, now, pc, dryRun, todos, idx, cur, stamp, result,
          existingLinearIds, maxIssueId, imp, branches, hist, entries, failed,
          edits, passes, failures, apiKey, call, plans, out>>

FileSlots == 1..MaxFiles
IssueIds == 1..MaxIssues

BlankFile ==
  [present |-> FALSE, issue_id |-> 0, status |-> "pending", priority |-> "p3",
   title |-> "a", linear_id |-> NoLink, synced |-> Epoch, mtime |-> 0,
   name |-> <<>>, log |-> <<>>]

BlankIssue ==
  [present |-> FALSE, state |-> DefaultStateName, priority |-> 0, title |-> "a",
   updatedAt |-> 0, comments |-> <<>>, source |-> 0, pushedBy |-> 0]

EmptyResult ==
  [pushed |-> [created |-> 0, updated |-> 0],
   pulled |-> [updated |-> 0, comments |-> 0, created |-> 0],
   conflicts |-> <<>>, skipped |-> 0, errors |-> <<>>]

\* fields of an update request, and whether a request was sent
NoInput == [stateId |-> FALSE, priority |-> FALSE, title |-> FALSE, sent |-> FALSE]

NoCur == [issue |-> BlankIssue, mode |-> "none", changed |-> FALSE, created |-> 0,
          fetches |-> 0, input |-> NoInput]
NoImp == [queue |-> <<>>, maxId |-> 0, created |-> 0]
\* no helper is being applied on its own
NoCall == [fn |-> "none", done |-> FALSE]

\* PlanFrontmatter, with linear_id for a task field written into the plan
PlanSlots == 1..MaxPlans
PlanStatuses == {"draft", "active", "completed"}
BlankPlan ==
  [present |-> FALSE, status |-> "draft", title |-> "a", linear_issue |-> NoLink,
   synced |-> Epoch, linear_id |-> NoLink, mtime |-> 0]
NoPlans == [p \in PlanSlots |-> BlankPlan]

\* the output root: opencode.json, its backups, agents/, commands/ and the
\* backups of command files
NoConfigFile == [kind |-> "absent", json |-> <<>>]
NoText == ""
AgentNames == {"r"}
CommandNames == {"x", "y"}
NoOutput ==
  [config |-> NoConfigFile, bak |-> <<>>, agents |-> [n \in AgentNames |-> NoText],
   commands |-> [n \in CommandNames |-> NoText], cmdBak |-> <<>>]

NoHist == [valid |-> FALSE, dryRun |-> FALSE, result |-> EmptyResult,
           branches |-> <<>>, failed |-> {}, todos |-> <<>>]

\* the file an import (pullNewIssues) writes for a remote issue
ImportedFile(issueId, id, issue, syncedAt, mtime) ==
  LET st == linearStateToFileStatus(issue.state, DefaultConfig)
      status == IF st = Undefined THEN "pending" ELSE st
      priority == linearPriorityToFile(issue.priority, DefaultConfig)
  IN [present |-> TRUE, issue_id |-> issueId, status |-> status, priority |-> priority,
      title |-> issue.title, linear_id |-> id, synced |-> syncedAt, mtime |-> mtime,
      name |-> <<issueId, status, priority, issue.title>>, log |-> <<>>]

PresentFiles == {f \in FileSlots : files[f].present}
PresentIssues == {i \in IssueIds : issues[i].present}
FreeFileSlots == FileSlots \ PresentFiles
FreeIssueIds == IssueIds \ PresentIssues
MinOf(S) == CHOOSE x \in S : \A y \in S : x <= y
MaxOf(S) == IF S = {} THEN 0 ELSE CHOOSE x \in S : \A y \in S : y <= x

\* ascending sequence of the members of a finite set of integers
RECURSIVE SeqOf(_)
SeqOf(S) == IF S = {} THEN <<>> ELSE <<MinOf(S)>> \o SeqOf(S \ {MinOf(S)})

\* loadTodoFiles(todosDir): one TodoFile per file, in directory-walk order
TodoOf(f) ==
  [slot |-> f, name |-> files[f].name, status |-> files[f].status,
   priority |-> files[f].priority, issue_id |-> files[f].issue_id,
   title |-> files[f].title, linear_id |-> files[f].linear_id,
   synced |-> files[f].synced]

loadTodoFiles ==
  LET order == SeqOf(PresentFiles)
  IN [k \in 1..Len(order) |-> TodoOf(order[k])]

\* a hand-written todo file: no linear_id, no linear_synced_at
NewFile(id, t) ==
  [BlankFile EXCEPT !.present = TRUE, !.issue_id = id, !.status = "pending",
                    !.priority = "p2", !.mtime = t,
                    !.name = <<id, "pending", "p2", "a">>]

\* no pass or command has run yet
InitLocals ==
  /\ now = 1
  /\ pc = "idle"
  /\ dryRun = FALSE
  /\ todos = <<>>
  /\ idx = 0
  /\ cur = NoCur
  /\ stamp = 0
  /\ result = EmptyResult
  /\ existingLinearIds = {}
  /\ maxIssueId = 0
  /\ imp = NoImp
  /\ branches = <<>>
  /\ hist = NoHist
  /\ entries = <<>>
  /\ failed = {}
  /\ edits = 0
  /\ passes = 0
  /\ failures = 0

\* a workspace as earlier imports leave it: n issues, each with its imported
\* file, everything written at time 1; and u files written by hand
InitWorkspace ==
  \E n \in 0..MaxIssues, u \in 0..MaxNewFiles :
       /\ n + u <= MaxIssues
       /\ issues = [i \in IssueIds |->
                      IF i <= n
                      THEN [BlankIssue EXCEPT !.present = TRUE, !.state = "Todo",
                                               !.priority = 2, !.updatedAt = 1]
                      ELSE BlankIssue]
       /\ files = [f \in FileSlots |->
                      IF f <= n
                      THEN ImportedFile(f, f, [BlankIssue EXCEPT !.state = "Todo",
                                                                 !.priority = 2], 1, 1)
                      ELSE IF f <= n + u THEN NewFile(f, 1)
                      ELSE BlankFile]

\* the credential is set
Init ==
  /\ InitWorkspace
  /\ InitLocals
  /\ apiKey = TRUE
  /\ call = NoCall
  /\ plans = NoPlans
  /\ out = NoOutput

\* the credential is set or not
InitCli ==
  /\ InitWorkspace
  /\ InitLocals
  /\ apiKey \in BOOLEAN
  /\ call = NoCall
  /\ plans = NoPlans
  /\ out = NoOutput


\* ------------------------------------------------------------ environment
PassLocalsReset ==
  /\ dryRun' = FALSE /\ todos' = <<>> /\ idx' = 0 /\ cur' = NoCur /\ stamp' = 0
  /\ result' = EmptyResult /\ existingLinearIds' = {} /\ maxIssueId' = 0
  /\ imp' = NoImp /\ branches' = <<>> /\ hist' = NoHist /\ failed' = {}
  /\ entries' = <<>>

Quiet == pc \in {"idle", "done", "thrown", "skipped"}

\* a check of the credential that lets every command through
checkApiKeyAlways == TRUE

\* checkApiKey: hasApiKey(), !!process.env.LINEAR_API_KEY
checkApiKey == apiKey

\* the clock advances; nothing else happens
Tick ==
  /\ now < MaxTime
  /\ now' = now + 1
  /\ UNCHANGED <<files, issues, pc, dryRun, todos, idx, cur, stamp, result,
                 existingLinearIds, maxIssueId, imp, branches, hist, entries, failed,
                 edits, passes, failures>>
  /\ UNCHANGED <<apiKey, call, plans, out>>

\* a local actor writes a new todo file (no linear_id)
UserCreateFile(limit) ==
  /\ Quiet /\ edits < limit /\ FreeFileSlots # {}
  /\ LET f == MinOf(FreeFileSlots)
         id == MaxOf({files[g].issue_id : g \in PresentFiles}) + 1
     IN files' = [files EXCEPT ![f] = NewFile(id, now)]
  /\ edits' = edits + 1 /\ pc' = "idle" /\ PassLocalsReset
  /\ UNCHANGED <<issues, now, passes, failures>>
  /\ UNCHANGED <<apiKey, call, plans, out>>

\* a local actor edits status, priority or title of a file (and renames it)
UserEdit(limit) ==
  /\ Quiet /\ edits < limit
  /\ \E f \in PresentFiles :
       \E st \in Statuses, pr \in Priorities, ti \in Titles :
         /\ \/ st # files[f].status /\ pr = files[f].priority /\ ti = files[f].title
            \/ st = files[f].status /\ pr # files[f].priority /\ ti = files[f].title
            \/ st = files[f].status /\ pr = files[f].priority /\ ti # files[f].title
         /\ files' = [files EXCEPT ![f].status = st, ![f].priority = pr, ![f].title = ti,
                                   ![f].mtime = now,
                                   ![f].name = renameTodoFile(files[f].name, st, pr)]
  /\ edits' = edits + 1 /\ pc' = "idle" /\ PassLocalsReset
  /\ UNCHANGED <<issues, now, passes, failures>>
  /\ UNCHANGED <<apiKey, call, plans, out>>

\* a collaborator creates an issue in the tracker
RemoteCreate(limit) ==
  /\ Quiet /\ edits < limit /\ FreeIssueIds # {}
  /\ LET i == MinOf(FreeIssueIds)
     IN issues' = [issues EXCEPT ![i] =
          [BlankIssue EXCEPT !.present = TRUE, !.state = "Todo", !.priority = 2,
                             !.updatedAt = now]]
  /\ edits' = edits + 1 /\ pc' = "idle" /\ PassLocalsReset
  /\ UNCHANGED <<files, now, passes, failures>>
  /\ UNCHANGED <<apiKey, call, plans, out>>

\* a collaborator changes state, priority or title of an issue
RemoteEdit(limit) ==
  /\ Quiet /\ edits < limit
  /\ \E i \in PresentIssues :
       \E sn \in RemoteStateNames, pr \in LinearPriorities, ti \in Titles :
         /\ \/ sn # issues[i].state /\ pr = issues[i].priority /\ ti = issues[i].title
            \/ sn = issues[i].state /\ pr # issues[i].priority /\ ti = issues[i].title
            \/ sn = issues[i].state /\ pr = issues[i].priority /\ ti # issues[i].title
         /\ issues' = [issues EXCEPT ![i].state = sn, ![i].priority = pr, ![i].title = ti,
                                     ![i].updatedAt = now, ![i].pushedBy = 0]
  /\ edits' = edits + 1 /\ pc' = "idle" /\ PassLocalsReset
  /\ UNCHANGED <<files, now, passes, failures>>
  /\ UNCHANGED <<apiKey, call, plans, out>>

\* a collaborator comments on an issue; the tracker may or may not count
\* that as an update of the issue
RemoteComment(limit) ==
  /\ Quiet /\ edits < limit
  /\ \E i \in PresentIssues, bump \in BOOLEAN :
       issues' = [issues EXCEPT ![i].comments = Append(@, now),
                                ![i].updatedAt = IF bump THEN now ELSE @,
                                ![i].pushedBy = IF bump THEN 0 ELSE @]
  /\ edits' = edits + 1 /\ pc' = "idle" /\ PassLocalsReset
  /\ UNCHANGED <<files, now, passes, failures>>
  /\ UNCHANGED <<apiKey, call, plans, out>>

\* a local actor retitles a todo; status and priority stay
UserEditTitle(limit) ==
  /\ Quiet /\ edits < limit
  /\ \E f \in PresentFiles, ti \in Titles :
       /\ ti # files[f].title
       /\ files' = [files EXCEPT ![f].title = ti, ![f].mtime = now]
  /\ edits' = edits + 1 /\ pc' = "idle" /\ PassLocalsReset
  /\ UNCHANGED <<issues, now, passes, failures>>
  /\ UNCHANGED <<apiKey, call, plans, out>>

\* a collaborator retitles an issue; state and priority stay
RemoteEditTitle(limit) ==
  /\ Quiet /\ edits < limit
  /\ \E i \in PresentIssues, ti \in Titles :
       /\ ti # issues[i].title
       /\ issues' = [issues EXCEPT ![i].title = ti, ![i].updatedAt = now, ![i].pushedBy = 0]
  /\ edits' = edits + 1 /\ pc' = "idle" /\ PassLocalsReset
  /\ UNCHANGED <<files, now, passes, failures>>
  /\ UNCHANGED <<apiKey, call, plans, out>>

\* the process is killed in the middle of a pass
Interrupt ==
  /\ ~Quiet
  /\ pc' = "idle" /\ PassLocalsReset
  /\ UNCHANGED <<files, issues, now, edits, passes, failures>>
  /\ UNCHANGED <<apiKey, call, plans, out>>


\* ----------------------------------------------------------------- syncAll
Todo == todos[idx]
Unlinked == {f \in PresentFiles : files[f].linear_id = NoLink}
LinkedIds == {files[f].linear_id : f \in PresentFiles} \ {NoLink}

\* position after the record loop body for todos[idx] has ended
AfterRecord ==
  IF idx + 1 <= Len(todos) THEN "record" ELSE IF dryRun THEN "done" ELSE "discover"

EndRecord(res) ==
  /\ result' = res
  /\ idx' = idx + 1
  /\ pc' = AfterRecord
  /\ cur' = NoCur

ErrorEntry(kind, name) == [kind |-> kind, file |-> name]

\* syncAll(todosDir, config, opts): result zeroed, states listed, files
\* loaded, maxIssueId computed.  A live pass is only started when the
\* workspace and the directory have room for what it may create.
syncAll_start(dry, limit) ==
  /\ Quiet /\ checkApiKey /\ passes < limit
  /\ dry \/ /\ Cardinality(Unlinked) <= Cardinality(FreeIssueIds)
            /\ Cardinality(PresentIssues \ LinkedIds) + Cardinality(Unlinked)
                 <= Cardinality(FreeFileSlots)
  /\ hist' = IF pc = "done"
             THEN [valid |-> TRUE, dryRun |-> dryRun, result |-> result,
                   branches |-> branches, failed |-> failed, todos |-> todos]
             ELSE NoHist
  /\ dryRun' = dry
  /\ todos' = loadTodoFiles
  /\ maxIssueId' = MaxOf({files[f].issue_id : f \in PresentFiles})
  /\ result' = EmptyResult /\ existingLinearIds' = {} /\ branches' = <<>>
  /\ failed' = {} /\ cur' = NoCur /\ imp' = NoImp /\ stamp' = 0
  /\ entries' = <<>>
  /\ idx' = 1
  /\ pc' = IF Len(loadTodoFiles) > 0 THEN "record" ELSE IF dry THEN "done" ELSE "discover"
  /\ passes' = passes + 1
  /\ UNCHANGED <<files, issues, now, edits, failures>>
  /\ UNCHANGED <<apiKey, call, plans, out>>

\* branch of the record loop for a linked record, from the three timestamps
Classify(syncedAt, linearUpdated, fileMtime) ==
  LET linearChanged == linearUpdated > syncedAt
      fileChanged == fileMtime > syncedAt
  IN IF linearChanged /\ fileChanged THEN "conflict"
     ELSE IF fileChanged /\ ~linearChanged THEN "push"
     ELSE IF linearChanged /\ ~fileChanged THEN "pull"
     ELSE "skip"

\* a last-write-wins that gives a tie to Linear
WinnerLinearOnTie(linearUpdated, fileMtime) ==
  IF linearUpdated >= fileMtime THEN "linear" ELSE "file"

Winner(linearUpdated, fileMtime) == IF linearUpdated > fileMtime THEN "linear" ELSE "file"

ConflictStatus(issue) ==
  LET st == linearStateToFileStatus(issue.state, DefaultConfig)
  IN IF st = Undefined THEN issue.state ELSE st

ConflictEntry(todo, issue, winner) ==
  [file |-> todo.name, linearId |-> todo.linear_id, field |-> "status",
   fileValue |-> todo.status, linearValue |-> ConflictStatus(issue), winner |-> winner]

\* a conflict branch that reports every record both sides of which changed
AddConflictAlways(res, todo, issue, winner) ==
  [res EXCEPT !.conflicts = Append(@, ConflictEntry(todo, issue, winner))]

AddConflict(res, todo, issue, winner) ==
  IF todo.status # ConflictStatus(issue)
  THEN [res EXCEPT !.conflicts = Append(@, ConflictEntry(todo, issue, winner))]
  ELSE res

\* what the loop saw and chose for one record
Taken(branch, issue, fileMtime) ==
  [branch |-> branch, linearUpdated |-> issue.updatedAt, fileMtime |-> fileMtime,
   state |-> issue.state, priority |-> issue.priority]

\* record loop, linked record: fetch the issue, stat the file, pick the branch
syncAll_linked ==
  /\ pc = "record" /\ Todo.linear_id # NoLink
  /\ LET todo == Todo
         issue == issues[todo.linear_id]
         fileMtime == files[todo.slot].mtime
         branch == Classify(todo.synced, issue.updatedAt, fileMtime)
         winner == Winner(issue.updatedAt, fileMtime)
     IN /\ existingLinearIds' = existingLinearIds \cup {todo.linear_id}
        /\ branches' = Append(branches, Taken(branch, issue, fileMtime))
        /\ CASE branch = "conflict" ->
                  IF dryRun
                  THEN EndRecord(AddConflict(result, todo, issue, winner))
                  ELSE /\ result' = AddConflict(result, todo, issue, winner)
                       /\ cur' = [NoCur EXCEPT !.issue = issue, !.mode = "conflict", !.fetches = 1]
                       /\ pc' = IF winner = "linear" THEN "pullState" ELSE "pushUpdate"
                       /\ idx' = idx
             [] branch = "push" ->
                  IF dryRun
                  THEN EndRecord([result EXCEPT !.pushed.updated = @ + 1])
                  ELSE /\ cur' = [NoCur EXCEPT !.issue = issue, !.mode = "push", !.fetches = 1]
                       /\ pc' = "pushUpdate"
                       /\ UNCHANGED <<result, idx>>
             [] branch = "pull" ->
                  IF dryRun
                  THEN EndRecord([result EXCEPT !.pulled.updated = @ + 1])
                  ELSE /\ cur' = [NoCur EXCEPT !.issue = issue, !.mode = "pull", !.fetches = 1]
                       /\ pc' = "pullState"
                       /\ UNCHANGED <<result, idx>>
             [] OTHER -> EndRecord([result EXCEPT !.skipped = @ + 1])
  /\ UNCHANGED <<files, issues, now, dryRun, todos, stamp, maxIssueId, imp, hist, entries,
                 failed, edits, passes, failures>>
  /\ UNCHANGED <<apiKey, call, plans, out>>

\* a record loop whose create branch does not look at opts.dryRun
syncAll_unlinkedLive ==
  /\ pc = "record" /\ Todo.linear_id = NoLink
  /\ branches' = Append(branches, Taken("create", BlankIssue, files[Todo.slot].mtime))
  /\ cur' = [NoCur EXCEPT !.mode = "create"]
  /\ pc' = "pushCreate"
  /\ UNCHANGED <<result, idx>>
  /\ UNCHANGED <<files, issues, now, dryRun, todos, stamp, existingLinearIds,
                 maxIssueId, imp, hist, entries, failed, edits, passes, failures>>
  /\ UNCHANGED <<apiKey, call, plans, out>>

\* record loop, record without linear_id
syncAll_unlinked ==
  /\ pc = "record" /\ Todo.linear_id = NoLink
  /\ branches' = Append(branches, Taken("create", BlankIssue, files[Todo.slot].mtime))
  /\ IF dryRun
     THEN EndRecord([result EXCEPT !.pushed.created = @ + 1])
     ELSE /\ cur' = [NoCur EXCEPT !.mode = "create"]
          /\ pc' = "pushCreate"
          /\ UNCHANGED <<result, idx>>
  /\ UNCHANGED <<files, issues, now, dryRun, todos, stamp, existingLinearIds,
                 maxIssueId, imp, hist, entries, failed, edits, passes, failures>>
  /\ UNCHANGED <<apiKey, call, plans, out>>

\* a syncAll without the per-record try/catch: the throw ends the pass
syncAll_throw ==
  /\ \/ pc = "record" /\ Todo.linear_id # NoLink
     \/ pc \in {"pushUpdate", "pushWrite", "pullWrite", "commentWrite",
                "pushCreate", "createWrite"}
  /\ failures < MaxFailures
  /\ failures' = failures + 1
  /\ failed' = failed \cup {idx}
  /\ branches' = IF pc = "record"
                 THEN Append(branches, Taken("error", BlankIssue, files[Todo.slot].mtime))
                 ELSE branches
  /\ result' = [result EXCEPT !.errors = Append(@, ErrorEntry("sync", Todo.name))]
  /\ pc' = "done"
  /\ UNCHANGED <<files, issues, now, dryRun, todos, idx, cur, stamp, existingLinearIds,
                 maxIssueId, imp, hist, entries, edits, passes>>
  /\ UNCHANGED <<apiKey, call, plans, out>>

\* an awaited call of the current record's try block throws; the catch
\* clause records the file name and the loop goes on
syncAll_catch ==
  /\ \/ pc = "record" /\ Todo.linear_id # NoLink
     \/ pc \in {"pushUpdate", "pushWrite", "pullWrite", "commentWrite",
                "pushCreate", "createWrite"}
  /\ failures < MaxFailures
  /\ failures' = failures + 1
  /\ failed' = failed \cup {idx}
  /\ existingLinearIds' = IF Todo.linear_id # NoLink
                          THEN existingLinearIds \cup {Todo.linear_id}
                          ELSE existingLinearIds
  /\ branches' = IF pc = "record"
                 THEN Append(branches, Taken("error", BlankIssue, files[Todo.slot].mtime))
                 ELSE branches
  /\ EndRecord([result EXCEPT !.errors =
        Append(@, ErrorEntry(IF Todo.linear_id # NoLink THEN "sync" ELSE "create",
                             Todo.name))])
  /\ UNCHANGED <<files, issues, now, dryRun, todos, stamp, maxIssueId, imp, hist, entries,
                 edits, passes>>
  /\ UNCHANGED <<apiKey, call, plans, out>>


\* -------------------------------------------------------------- pushUpdate
\* fields of the update request: those whose translated local value differs
\* from the issue pushUpdate fetched
\* a pushUpdate that sends all three fields whatever the issue holds
UpdateInputAll(todo, issue) ==
  [stateId |-> fileStatusToLinearState(todo.status, WorkflowStates, DefaultConfig) # NoState,
   priority |-> TRUE,
   title |-> TRUE]

UpdateInput(todo, issue) ==
  LET state == fileStatusToLinearState(todo.status, WorkflowStates, DefaultConfig)
      priority == filePriorityToLinear(todo.priority, DefaultConfig)
  IN [stateId |-> state # NoState /\ state.id # StateIdOf(issue.state),
      priority |-> priority # issue.priority,
      title |-> todo.title # issue.title]

\* the request as sent: api.updateIssue is called only when input has a key
SentInput(input) ==
  [stateId |-> input.stateId, priority |-> input.priority, title |-> input.title,
   sent |-> input.stateId \/ input.priority \/ input.title]

ApplyUpdate(todo, issue, t) ==
  LET input == UpdateInput(todo, issue)
      state == fileStatusToLinearState(todo.status, WorkflowStates, DefaultConfig)
  IN IF ~(input.stateId \/ input.priority \/ input.title) THEN issue
     ELSE [issue EXCEPT
             !.state = IF input.stateId THEN state.name ELSE @,
             !.priority = IF input.priority THEN filePriorityToLinear(todo.priority, DefaultConfig) ELSE @,
             !.title = IF input.title THEN todo.title ELSE @,
             !.updatedAt = t,
             !.pushedBy = todo.slot]

\* pushUpdate: fetch the issue (again), send the update if any field differs
pushUpdate_remote ==
  /\ pc = "pushUpdate"
  /\ issues' = [issues EXCEPT ![Todo.linear_id] = ApplyUpdate(Todo, @, now)]
  /\ cur' = [cur EXCEPT !.fetches = @ + 1,
                        !.input = SentInput(UpdateInput(Todo, issues[Todo.linear_id]))]
  /\ pc' = "pushStamp"
  /\ UNCHANGED <<files, now, dryRun, todos, idx, stamp, result, existingLinearIds,
                 maxIssueId, imp, branches, hist, entries, failed, edits, passes, failures>>
  /\ UNCHANGED <<apiKey, call, plans, out>>

\* pushUpdate: new Date().toISOString()
pushUpdate_stamp ==
  /\ pc = "pushStamp"
  /\ stamp' = now
  /\ pc' = "pushWrite"
  /\ UNCHANGED <<files, issues, now, dryRun, todos, idx, cur, result, existingLinearIds,
                 maxIssueId, imp, branches, hist, entries, failed, edits, passes, failures>>
  /\ UNCHANGED <<apiKey, call, plans, out>>

\* an updateTodoFrontmatter that writes linear_id without linear_synced_at
updateTodoFrontmatterIdOnly(file, linearId, syncedAt, t) ==
  [file EXCEPT !.linear_id = IF linearId # NoLink THEN linearId ELSE @,
               !.mtime = t]

\* updateTodoFrontmatter(path, updates): read, merge, write
updateTodoFrontmatter(file, linearId, syncedAt, t) ==
  [file EXCEPT !.linear_id = IF linearId # NoLink THEN linearId ELSE @,
               !.synced = syncedAt,
               !.mtime = t]

\* pushUpdate: write linear_synced_at; back in syncAll count the push
pushUpdate_write ==
  /\ pc = "pushWrite"
  /\ files' = [files EXCEPT ![Todo.slot] = updateTodoFrontmatter(@, NoLink, stamp, now)]
  /\ EndRecord([result EXCEPT !.pushed.updated = @ + 1])
  /\ UNCHANGED <<issues, now, dryRun, todos, stamp, existingLinearIds, maxIssueId, imp,
                 branches, hist, entries, failed, edits, passes, failures>>
  /\ UNCHANGED <<apiKey, call, plans, out>>

\* ------------------------------------------------------ pullStateFromIssue
\* a pullStateFromIssue that rewrites the frontmatter and keeps the path
PulledFileNoRename(file, issue, syncedAt, t) ==
  LET newStatus == linearStateToFileStatus(issue.state, DefaultConfig)
      newPriority == linearPriorityToFile(issue.priority, DefaultConfig)
  IN [file EXCEPT !.status = IF newStatus # Undefined THEN newStatus ELSE @,
                  !.priority = newPriority,
                  !.synced = syncedAt, !.mtime = t]

\* a pullStateFromIssue that falls back to "pending" for a state without a
\* local status, as the import does
PulledFileDefaultStatus(file, issue, syncedAt, t) ==
  LET st == linearStateToFileStatus(issue.state, DefaultConfig)
      newStatus == IF st = Undefined THEN "pending" ELSE st
      newPriority == linearPriorityToFile(issue.priority, DefaultConfig)
  IN [file EXCEPT !.status = newStatus, !.priority = newPriority,
                  !.synced = syncedAt, !.mtime = t,
                  !.name = IF newStatus # file.status \/ newPriority # file.priority
                           THEN renameTodoFile(@, newStatus, newPriority) ELSE @]

\* frontmatter and name pullStateFromIssue leaves for a file
PulledFile(file, issue, syncedAt, t) ==
  LET newStatus == linearStateToFileStatus(issue.state, DefaultConfig)
      newPriority == linearPriorityToFile(issue.priority, DefaultConfig)
      setStatus == newStatus # Undefined /\ newStatus # file.status
      setPriority == newPriority # file.priority
      finalStatus == IF setStatus THEN newStatus ELSE file.status
      finalPriority == IF setPriority THEN newPriority ELSE file.priority
  IN [file EXCEPT !.status = finalStatus, !.priority = finalPriority,
                  !.synced = syncedAt, !.mtime = t,
                  !.name = IF setStatus \/ setPriority
                           THEN renameTodoFile(@, finalStatus, finalPriority) ELSE @]

PullChanged(file, issue) ==
  ~(linearStateToFileStatus(issue.state, DefaultConfig) = file.status
      /\ linearPriorityToFile(issue.priority, DefaultConfig) = file.priority)

\* a comment filter that lets every comment of the issue through
NewCommentsAll(issue, since) ==
  [k \in 1..Len(issue.comments) |-> [id |-> k, createdAt |-> issue.comments[k]]]

\* new comments of the pre-fetched issue: createdAt strictly after since
NewComments(issue, since) ==
  SelectSeq([k \in 1..Len(issue.comments) |-> [id |-> k, createdAt |-> issue.comments[k]]],
            LAMBDA c : c.createdAt > since)

\* the directory after writeText(todoPath) and fs.rename(todoPath, newPath):
\* a file that already has the new name is replaced
WriteAndRename(f, new) ==
  [g \in FileSlots |->
     IF g = f THEN new
     ELSE IF files[g].present /\ new.name # files[f].name /\ files[g].name = new.name
          THEN BlankFile ELSE files[g]]

\* pullStateFromIssue: read the file, compare, take the timestamp
pullState_read ==
  /\ pc = "pullState"
  /\ stamp' = now
  /\ pc' = "pullWrite"
  /\ UNCHANGED <<files, issues, now, dryRun, todos, idx, cur, result, existingLinearIds,
                 maxIssueId, imp, branches, hist, entries, failed, edits, passes, failures>>
  /\ UNCHANGED <<apiKey, call, plans, out>>

\* pullStateFromIssue: write the merged frontmatter, rename (fs.rename
\* replaces a file that already has the new name); back in syncAll count
\* the pull and go on to the comments
pullState_write ==
  /\ pc = "pullWrite"
  /\ LET f == Todo.slot
         new == PulledFile(files[f], cur.issue, stamp, now)
         changed == PullChanged(files[f], cur.issue)
         count == cur.mode = "conflict" \/ changed
         res == IF count THEN [result EXCEPT !.pulled.updated = @ + 1] ELSE result
         more == /\ cur.mode = "pull" /\ Todo.synced # Epoch
                 /\ Len(NewComments(cur.issue, Todo.synced)) > 0
     IN /\ files' = WriteAndRename(f, new)
        /\ IF more
           THEN /\ result' = res /\ pc' = "pullComments"
                /\ cur' = [cur EXCEPT !.changed = changed]
                /\ idx' = idx
           ELSE EndRecord(res)
  /\ UNCHANGED <<issues, now, dryRun, todos, stamp, existingLinearIds, maxIssueId, imp,
                 branches, hist, entries, failed, edits, passes, failures>>
  /\ UNCHANGED <<apiKey, call, plans, out>>

\* pullCommentsFromIssue: read the file, build the text, take the timestamp
pullComments_read ==
  /\ pc = "pullComments"
  /\ stamp' = now
  /\ pc' = "commentWrite"
  /\ UNCHANGED <<files, issues, now, dryRun, todos, idx, cur, result, existingLinearIds,
                 maxIssueId, imp, branches, hist, entries, failed, edits, passes, failures>>
  /\ UNCHANGED <<apiKey, call, plans, out>>

\* pullCommentsFromIssue: append to the Work Log and write
pullComments_write ==
  /\ pc = "commentWrite"
  /\ LET new == NewComments(cur.issue, Todo.synced)
         appended == [k \in 1..Len(new) |-> [issue |-> Todo.linear_id, id |-> new[k].id]]
     IN /\ files' = [files EXCEPT ![Todo.slot].log = @ \o appended,
                                  ![Todo.slot].synced = stamp,
                                  ![Todo.slot].mtime = now]
        /\ EndRecord([result EXCEPT !.pulled.comments = @ + Len(new)])
  /\ UNCHANGED <<issues, now, dryRun, todos, stamp, existingLinearIds, maxIssueId, imp,
                 branches, hist, entries, failed, edits, passes, failures>>
  /\ UNCHANGED <<apiKey, call, plans, out>>


\* -------------------------------------------------------------- pushCreate
CreatedIssue(todo, t) ==
  LET state == fileStatusToLinearState(todo.status, WorkflowStates, DefaultConfig)
  IN [BlankIssue EXCEPT !.present = TRUE,
                        !.state = IF state = NoState THEN DefaultStateName ELSE state.name,
                        !.priority = filePriorityToLinear(todo.priority, DefaultConfig),
                        !.title = todo.title,
                        !.updatedAt = t,
                        !.source = todo.slot]

\* pushCreate: api.createIssue
pushCreate_remote ==
  /\ pc = "pushCreate"
  /\ FreeIssueIds # {}
  /\ LET i == MinOf(FreeIssueIds)
     IN /\ issues' = [issues EXCEPT ![i] = CreatedIssue(Todo, now)]
        /\ cur' = [cur EXCEPT !.created = i]
  /\ pc' = "createStamp"
  /\ UNCHANGED <<files, now, dryRun, todos, idx, stamp, result, existingLinearIds,
                 maxIssueId, imp, branches, hist, entries, failed, edits, passes, failures>>
  /\ UNCHANGED <<apiKey, call, plans, out>>

\* pushCreate: new Date().toISOString()
pushCreate_stamp ==
  /\ pc = "createStamp"
  /\ stamp' = now
  /\ pc' = "createWrite"
  /\ UNCHANGED <<files, issues, now, dryRun, todos, idx, cur, result, existingLinearIds,
                 maxIssueId, imp, branches, hist, entries, failed, edits, passes, failures>>
  /\ UNCHANGED <<apiKey, call, plans, out>>

\* identifiers syncAll knows to be linked once a record has been created
SeenAfterCreate(seen, identifier) == seen

\* a create branch that writes the file and leaves result.pushed.created
pushCreate_writeUncounted ==
  /\ pc = "createWrite"
  /\ files' = [files EXCEPT ![Todo.slot] = updateTodoFrontmatter(@, cur.created, stamp, now)]
  /\ existingLinearIds' = SeenAfterCreate(existingLinearIds, cur.created)
  /\ EndRecord(result)
  /\ UNCHANGED <<issues, now, dryRun, todos, stamp, maxIssueId, imp,
                 branches, hist, entries, failed, edits, passes, failures>>
  /\ UNCHANGED <<apiKey, call, plans, out>>

\* pushCreate: write linear_id and linear_synced_at back; back in syncAll
\* count the creation
pushCreate_write ==
  /\ pc = "createWrite"
  /\ files' = [files EXCEPT ![Todo.slot] = updateTodoFrontmatter(@, cur.created, stamp, now)]
  /\ existingLinearIds' = SeenAfterCreate(existingLinearIds, cur.created)
  /\ EndRecord([result EXCEPT !.pushed.created = @ + 1])
  /\ UNCHANGED <<issues, now, dryRun, todos, stamp, maxIssueId, imp,
                 branches, hist, entries, failed, edits, passes, failures>>
  /\ UNCHANGED <<apiKey, call, plans, out>>

\* ----------------------------------------------------------- pullNewIssues
\* issues of the list call whose identifier is not in existingLinearIds
NewIssues(existing) == SeqOf({i \in PresentIssues : i \notin existing})

\* pullNewIssues: api.listIssues, filter, starting issue_id
pullNewIssues_list ==
  /\ pc = "discover"
  /\ LET newIssues == NewIssues(existingLinearIds)
     IN IF Len(newIssues) = 0
        THEN /\ result' = [result EXCEPT !.pulled.created = 0]
             /\ pc' = "done"
             /\ imp' = NoImp
        ELSE /\ imp' = [queue |-> newIssues,
                        maxId |-> IF maxIssueId = 0
                                  THEN MaxOf({files[f].issue_id : f \in PresentFiles})
                                  ELSE maxIssueId,
                        created |-> 0]
             /\ pc' = "importStamp"
             /\ result' = result
  /\ UNCHANGED <<files, issues, now, dryRun, todos, idx, cur, stamp, existingLinearIds,
                 maxIssueId, branches, hist, entries, failed, edits, passes, failures>>
  /\ UNCHANGED <<apiKey, call, plans, out>>

\* a pullNewIssues loop that does not advance maxId
pullNewIssues_stampSameId ==
  /\ pc = "importStamp"
  /\ imp' = [imp EXCEPT !.maxId = IF @ = 0 THEN 1 ELSE @]
  /\ stamp' = now
  /\ pc' = "importWrite"
  /\ UNCHANGED <<files, issues, now, dryRun, todos, idx, cur, result, existingLinearIds,
                 maxIssueId, branches, hist, entries, failed, edits, passes, failures>>
  /\ UNCHANGED <<apiKey, call, plans, out>>

\* pullNewIssues loop: maxId++, frontmatter with new Date().toISOString()
pullNewIssues_stamp ==
  /\ pc = "importStamp"
  /\ imp' = [imp EXCEPT !.maxId = @ + 1]
  /\ stamp' = now
  /\ pc' = "importWrite"
  /\ UNCHANGED <<files, issues, now, dryRun, todos, idx, cur, result, existingLinearIds,
                 maxIssueId, branches, hist, entries, failed, edits, passes, failures>>
  /\ UNCHANGED <<apiKey, call, plans, out>>

\* pullNewIssues loop: writeText of the new file; after the last one syncAll
\* sets pulled.created
pullNewIssues_write ==
  /\ pc = "importWrite"
  /\ LET i == Head(imp.queue)
         new == ImportedFile(imp.maxId, i, issues[i], stamp, now)
         same == {g \in PresentFiles : files[g].name = new.name}
         rest == Tail(imp.queue)
     IN /\ same # {} \/ FreeFileSlots # {}
        /\ files' = [files EXCEPT ![IF same # {} THEN MinOf(same) ELSE MinOf(FreeFileSlots)] = new]
        /\ imp' = [imp EXCEPT !.queue = rest, !.created = @ + 1]
        /\ IF Len(rest) = 0
           THEN /\ result' = [result EXCEPT !.pulled.created = imp.created + 1]
                /\ pc' = "done"
           ELSE /\ result' = result
                /\ pc' = "importStamp"
  /\ UNCHANGED <<issues, now, dryRun, todos, idx, cur, stamp, existingLinearIds,
                 maxIssueId, branches, hist, entries, failed, edits, passes, failures>>
  /\ UNCHANGED <<apiKey, call, plans, out>>

\* the list call or a file write of pullNewIssues throws; syncAll records it
syncAll_catchNew ==
  /\ pc \in {"discover", "importWrite"}
  /\ failures < MaxFailures
  /\ failures' = failures + 1
  /\ failed' = failed \cup {0}
  /\ result' = [result EXCEPT !.errors = Append(@, ErrorEntry("pull-new", <<>>))]
  /\ pc' = "done"
  /\ UNCHANGED <<files, issues, now, dryRun, todos, idx, cur, stamp, existingLinearIds,
                 maxIssueId, imp, branches, hist, entries, edits, passes>>
  /\ UNCHANGED <<apiKey, call, plans, out>>

\* ---------------------------------------------------------------- commands
\* locals of a command that starts on a list of loaded files
CommandInit(list) ==
  /\ dryRun' = FALSE /\ todos' = list /\ idx' = 1 /\ cur' = NoCur /\ stamp' = 0
  /\ result' = EmptyResult /\ existingLinearIds' = {} /\ maxIssueId' = 0
  /\ imp' = NoImp /\ branches' = <<>> /\ hist' = NoHist /\ failed' = {}
  /\ entries' = <<>>

\* the command returns
EndCommand == pc' = "idle" /\ PassLocalsReset

\* the loop of a command goes to its next file
NextFile(label) ==
  /\ idx' = idx + 1 /\ pc' = label /\ cur' = NoCur
  /\ UNCHANGED <<dryRun, todos, stamp, result, existingLinearIds, maxIssueId, imp,
                 branches, hist, entries, failed>>

\* ------------------------------------------------------------- pullCommand
PullNext == IF idx + 1 <= Len(todos) THEN "pullCmd" ELSE "pullCmdList"

\* pullCommand: load the directory
pullCommand_start(limit) ==
  /\ Quiet /\ checkApiKey /\ passes < limit
  /\ Cardinality(PresentIssues \ LinkedIds) <= Cardinality(FreeFileSlots)
  /\ CommandInit(loadTodoFiles)
  /\ pc' = IF Len(loadTodoFiles) > 0 THEN "pullCmd" ELSE "pullCmdList"
  /\ passes' = passes + 1
  /\ UNCHANGED <<files, issues, now, edits, failures>>
  /\ UNCHANGED <<apiKey, call, plans, out>>

\* pullCommand loop: if (!todo.frontmatter.linear_id) continue
pullCommand_skip ==
  /\ pc = "pullCmd" /\ Todo.linear_id = NoLink
  /\ NextFile(PullNext)
  /\ UNCHANGED <<files, issues, now, edits, passes, failures>>
  /\ UNCHANGED <<apiKey, call, plans, out>>

\* pullCommand loop: pullState fetches the issue; pullStateFromIssue reads
\* the file, compares and takes the timestamp
pullCommand_state ==
  /\ pc = "pullCmd" /\ Todo.linear_id # NoLink
  /\ existingLinearIds' = existingLinearIds \cup {Todo.linear_id}
  /\ cur' = [NoCur EXCEPT !.issue = issues[Todo.linear_id], !.mode = "pull", !.fetches = 1]
  /\ stamp' = now
  /\ pc' = "pullCmdWrite"
  /\ UNCHANGED <<files, issues, now, dryRun, todos, idx, result, maxIssueId, imp,
                 branches, hist, entries, failed, edits, passes, failures>>
  /\ UNCHANGED <<apiKey, call, plans, out>>

\* pullCommand loop: pullStateFromIssue writes and renames; comments are
\* pulled when the loaded record had a linear_synced_at
pullCommand_write ==
  /\ pc = "pullCmdWrite"
  /\ files' = WriteAndRename(Todo.slot, PulledFile(files[Todo.slot], cur.issue, stamp, now))
  /\ IF Todo.synced # Epoch
     THEN /\ pc' = "pullCmdComments"
          /\ UNCHANGED <<dryRun, todos, idx, cur, stamp, result, existingLinearIds,
                         maxIssueId, imp, branches, hist, entries, failed>>
     ELSE NextFile(PullNext)
  /\ UNCHANGED <<issues, now, edits, passes, failures>>
  /\ UNCHANGED <<apiKey, call, plans, out>>

\* pullCommand loop: pullComments fetches the issue again and filters
pullCommand_comments ==
  /\ pc = "pullCmdComments"
  /\ LET issue == issues[Todo.linear_id]
     IN IF Len(NewComments(issue, Todo.synced)) = 0
        THEN NextFile(PullNext)
        ELSE /\ cur' = [cur EXCEPT !.issue = issue, !.fetches = @ + 1]
             /\ stamp' = now
             /\ pc' = "pullCmdLog"
             /\ UNCHANGED <<dryRun, todos, idx, result, existingLinearIds, maxIssueId,
                            imp, branches, hist, entries, failed>>
  /\ UNCHANGED <<files, issues, now, edits, passes, failures>>
  /\ UNCHANGED <<apiKey, call, plans, out>>

\* pullCommand loop: pullCommentsFromIssue appends to the Work Log and writes
pullCommand_log ==
  /\ pc = "pullCmdLog"
  /\ LET new == NewComments(cur.issue, Todo.synced)
         appended == [k \in 1..Len(new) |-> [issue |-> Todo.linear_id, id |-> new[k].id]]
     IN files' = [files EXCEPT ![Todo.slot].log = @ \o appended,
                               ![Todo.slot].synced = stamp,
                               ![Todo.slot].mtime = now]
  /\ NextFile(PullNext)
  /\ UNCHANGED <<issues, now, edits, passes, failures>>
  /\ UNCHANGED <<apiKey, call, plans, out>>

\* pullCommand: pullNewIssues(config, todosDir, existingIds), no maxExistingId
pullCommand_list ==
  /\ pc = "pullCmdList"
  /\ LET newIssues == NewIssues(existingLinearIds)
     IN IF Len(newIssues) = 0
        THEN EndCommand
        ELSE /\ imp' = [queue |-> newIssues,
                        maxId |-> MaxOf({files[f].issue_id : f \in PresentFiles}),
                        created |-> 0]
             /\ pc' = "pullCmdImportStamp"
             /\ UNCHANGED <<dryRun, todos, idx, cur, stamp, result, existingLinearIds,
                            maxIssueId, branches, hist, entries, failed>>
  /\ UNCHANGED <<files, issues, now, edits, passes, failures>>
  /\ UNCHANGED <<apiKey, call, plans, out>>

\* pullNewIssues loop: maxId++, frontmatter with new Date().toISOString()
pullCommand_importStamp ==
  /\ pc = "pullCmdImportStamp"
  /\ imp' = [imp EXCEPT !.maxId = @ + 1]
  /\ stamp' = now
  /\ pc' = "pullCmdImportWrite"
  /\ UNCHANGED <<files, issues, now, dryRun, todos, idx, cur, result, existingLinearIds,
                 maxIssueId, branches, hist, entries, failed, edits, passes, failures>>
  /\ UNCHANGED <<apiKey, call, plans, out>>

\* the directory after writeText of a new file (a file of that name is replaced)
WriteNew(new) ==
  LET same == {g \in PresentFiles : files[g].name = new.name}
  IN [files EXCEPT ![IF same # {} THEN MinOf(same) ELSE MinOf(FreeFileSlots)] = new]

\* pullNewIssues loop: writeText of the new file
pullCommand_importWrite ==
  /\ pc = "pullCmdImportWrite"
  /\ LET i == Head(imp.queue)
         new == ImportedFile(imp.maxId, i, issues[i], stamp, now)
         rest == Tail(imp.queue)
     IN /\ FreeFileSlots # {}
        /\ files' = WriteNew(new)
        /\ IF Len(rest) = 0
           THEN EndCommand
           ELSE /\ imp' = [imp EXCEPT !.queue = rest, !.created = @ + 1]
                /\ pc' = "pullCmdImportStamp"
                /\ UNCHANGED <<dryRun, todos, idx, cur, stamp, result, existingLinearIds,
                               maxIssueId, branches, hist, entries, failed>>
  /\ UNCHANGED <<issues, now, edits, passes, failures>>
  /\ UNCHANGED <<apiKey, call, plans, out>>

\* ------------------------------------------------------------- pushCommand
\* pushCommand on the whole directory (file = 0) or on one file; on a
\* file without linear_id this is also createCommand (pushCreate on the file)
pushCommand_start(limit) ==
  /\ Quiet /\ checkApiKey /\ passes < limit
  /\ \E file \in {0} \cup PresentFiles :
       LET list == IF file = 0 THEN loadTodoFiles ELSE <<TodoOf(file)>>
           creates == {k \in 1..Len(list) : list[k].linear_id = NoLink}
       IN /\ Len(list) > 0
          /\ Cardinality(creates) <= Cardinality(FreeIssueIds)
          /\ CommandInit(list)
  /\ pc' = "pushCmd"
  /\ passes' = passes + 1
  /\ UNCHANGED <<files, issues, now, edits, failures>>
  /\ UNCHANGED <<apiKey, call, plans, out>>

\* pushCommand loop, linked file: pushUpdate fetches and sends the update
pushCommand_update ==
  /\ pc = "pushCmd" /\ Todo.linear_id # NoLink
  /\ issues' = [issues EXCEPT ![Todo.linear_id] = ApplyUpdate(Todo, @, now)]
  /\ cur' = [NoCur EXCEPT !.mode = "push", !.fetches = 1,
                          !.input = SentInput(UpdateInput(Todo, issues[Todo.linear_id]))]
  /\ pc' = "pushCmdStamp"
  /\ UNCHANGED <<files, now, dryRun, todos, idx, stamp, result, existingLinearIds,
                 maxIssueId, imp, branches, hist, entries, failed, edits, passes, failures>>
  /\ UNCHANGED <<apiKey, call, plans, out>>

\* pushCommand loop, file without linear_id: pushCreate calls api.createIssue
pushCommand_create ==
  /\ pc = "pushCmd" /\ Todo.linear_id = NoLink
  /\ FreeIssueIds # {}
  /\ LET i == MinOf(FreeIssueIds)
     IN /\ issues' = [issues EXCEPT ![i] = CreatedIssue(Todo, now)]
        /\ cur' = [NoCur EXCEPT !.mode = "create", !.created = i]
  /\ pc' = "pushCmdStamp"
  /\ UNCHANGED <<files, now, dryRun, todos, idx, stamp, result, existingLinearIds,
                 maxIssueId, imp, branches, hist, entries, failed, edits, passes, failures>>
  /\ UNCHANGED <<apiKey, call, plans, out>>

\* pushCreate / pushUpdate: new Date().toISOString()
pushCommand_stamp ==
  /\ pc = "pushCmdStamp"
  /\ stamp' = now
  /\ pc' = "pushCmdWrite"
  /\ UNCHANGED <<files, issues, now, dryRun, todos, idx, cur, result, existingLinearIds,
                 maxIssueId, imp, branches, hist, entries, failed, edits, passes, failures>>
  /\ UNCHANGED <<apiKey, call, plans, out>>

\* pushCreate / pushUpdate: updateTodoFrontmatter; then the next file
pushCommand_write ==
  /\ pc = "pushCmdWrite"
  /\ files' = [files EXCEPT ![Todo.slot] = updateTodoFrontmatter(@, cur.created, stamp, now)]
  /\ IF idx + 1 <= Len(todos) THEN NextFile("pushCmd") ELSE EndCommand
  /\ UNCHANGED <<issues, now, edits, passes, failures>>
  /\ UNCHANGED <<apiKey, call, plans, out>>

\* an awaited call in the loop of pushCommand throws (the fetch, the update
\* or create request, the write): the loop has no try/catch, run() rejects
pushCommand_throw ==
  /\ pc \in {"pushCmd", "pushCmdWrite"}
  /\ failures < MaxFailures
  /\ failures' = failures + 1
  /\ failed' = failed \cup {idx}
  /\ pc' = "thrown"
  /\ UNCHANGED <<files, issues, now, dryRun, todos, idx, cur, stamp, result,
                 existingLinearIds, maxIssueId, imp, branches, hist, entries,
                 edits, passes>>
  /\ UNCHANGED <<apiKey, call, plans, out>>

\* an awaited call in the loop of pullCommand throws (pullState, the write,
\* pullComments): the loop has no try/catch, run() rejects
pullCommand_throw ==
  /\ pc \in {"pullCmd", "pullCmdWrite", "pullCmdComments", "pullCmdLog"}
  /\ Todo.linear_id # NoLink
  /\ failures < MaxFailures
  /\ failures' = failures + 1
  /\ failed' = failed \cup {idx}
  /\ pc' = "thrown"
  /\ UNCHANGED <<files, issues, now, dryRun, todos, idx, cur, stamp, result,
                 existingLinearIds, maxIssueId, imp, branches, hist, entries,
                 edits, passes>>
  /\ UNCHANGED <<apiKey, call, plans, out>>

\* ----------------------------------------------------------- cancelCommand
\* pushCancel: the state of type "canceled" or named "cancelled"
CancelledState(states) ==
  LET hits == {k \in 1..Len(states) :
                 states[k].type = "canceled" \/ ToLower(states[k].name) = "cancelled"}
  IN IF hits = {} THEN NoState ELSE states[MinOf(hits)]

\* pushCancel: the issue is fetched, moved to the cancelled state if the
\* workflow has one, and commented on if a comment is given
pushCancel(issue, states, comment, t) ==
  LET cancelledState == CancelledState(states)
      moved == IF cancelledState # NoState
               THEN [issue EXCEPT !.state = cancelledState.name, !.updatedAt = t,
                                  !.pushedBy = 0]
               ELSE issue
  IN IF comment THEN [moved EXCEPT !.comments = Append(@, t)] ELSE moved

\* cancelCommand: states are listed, pushCancel runs, "Cancelled" is printed
cancelCommand(limit) ==
  /\ Quiet /\ checkApiKey /\ passes < limit
  /\ \E linearId \in PresentIssues, comment \in BOOLEAN :
       issues' = [issues EXCEPT ![linearId] = pushCancel(@, WorkflowStates, comment, now)]
  /\ EndCommand
  /\ passes' = passes + 1
  /\ UNCHANGED <<files, now, edits, failures>>
  /\ UNCHANGED <<apiKey, call, plans, out>>

\* ----------------------------------------------------------- configCommand
\* configCommand: the configuration is resolved and printed; an error of
\* resolveConfig is caught and printed
configCommand(limit) ==
  /\ Quiet /\ checkApiKey /\ passes < limit
  /\ EndCommand
  /\ passes' = passes + 1
  /\ UNCHANGED <<files, issues, now, edits, failures>>
  /\ UNCHANGED <<apiKey, call, plans, out>>

\* ---------------------------------------------------------------- no key
Subcommands == {"sync", "push", "pull", "status", "import", "create", "cancel", "config"}

\* if (!checkApiKey()) return: the subcommand prints that it skips and returns
command_skip(limit) ==
  /\ Quiet /\ ~checkApiKey /\ passes < limit
  /\ \E cmd \in Subcommands :
       cur' = [NoCur EXCEPT !.mode = cmd]
  /\ dryRun' = FALSE /\ todos' = <<>> /\ idx' = 0 /\ stamp' = 0
  /\ result' = EmptyResult /\ existingLinearIds' = {} /\ maxIssueId' = 0
  /\ imp' = NoImp /\ branches' = <<>> /\ hist' = NoHist /\ failed' = {}
  /\ entries' = <<>>
  /\ pc' = "skipped"
  /\ passes' = passes + 1
  /\ UNCHANGED <<files, issues, now, edits, failures>>
  /\ UNCHANGED <<apiKey, call, plans, out>>

\* -------------------------------------------------------------- plan files
PresentPlans == {p \in PlanSlots : plans[p].present}

\* a plan file is written by hand: title and status, no tracking fields
UserCreatePlan(limit) ==
  /\ Quiet /\ edits < limit /\ PlanSlots \ PresentPlans # {}
  /\ \E st \in PlanStatuses :
       plans' = [plans EXCEPT ![MinOf(PlanSlots \ PresentPlans)] =
                   [BlankPlan EXCEPT !.present = TRUE, !.status = st, !.mtime = now]]
  /\ edits' = edits + 1 /\ pc' = "idle" /\ PassLocalsReset
  /\ UNCHANGED <<files, issues, now, passes, failures, apiKey, call, out>>

\* the author changes the status or the title of a plan
UserEditPlan(limit) ==
  /\ Quiet /\ edits < limit
  /\ \E p \in PresentPlans, st \in PlanStatuses, ti \in Titles :
       /\ st # plans[p].status \/ ti # plans[p].title
       /\ plans' = [plans EXCEPT ![p].status = st, ![p].title = ti, ![p].mtime = now]
  /\ edits' = edits + 1 /\ pc' = "idle" /\ PassLocalsReset
  /\ UNCHANGED <<files, issues, now, passes, failures, apiKey, call, out>>

planStatusToTodoStatus(planStatus) ==
  CASE planStatus = "draft" -> "pending"
    [] planStatus = "active" -> "in_progress"
    [] planStatus = "completed" -> "complete"
    [] OTHER -> "pending"

\* loadSingleFile, kind "plan": the TodoFile synthesized from the plan
PlanTodo(p) ==
  [slot |-> p, name |-> <<>>, status |-> planStatusToTodoStatus(plans[p].status),
   priority |-> "p3", issue_id |-> 0, title |-> plans[p].title,
   linear_id |-> plans[p].linear_issue, synced |-> plans[p].synced]

\* a caller that lets pushCreate write linear_id into a plan
PlanSkipFileWriteNever == FALSE

\* isPlan ? { skipFileWrite: true } : undefined
PlanSkipFileWrite == TRUE

\* pushCreate's write-back: updateTodoFrontmatter unless opts.skipFileWrite
pushCreate_writeBack(file, identifier, syncedAt, t, skipFileWrite) ==
  IF skipFileWrite THEN file
  ELSE [file EXCEPT !.linear_id = identifier, !.synced = syncedAt, !.mtime = t]

\* updatePlanFrontmatter with linear_issue and linear_synced_at
updatePlanFrontmatter(file, linear_issue, syncedAt, t) ==
  [file EXCEPT !.linear_issue = linear_issue, !.synced = syncedAt, !.mtime = t]

\* locals of a command working on the plan of slot p
PlanLocals(p, c) ==
  /\ dryRun' = FALSE /\ todos' = <<PlanTodo(p)>> /\ idx' = 1 /\ cur' = c /\ stamp' = 0
  /\ result' = EmptyResult /\ existingLinearIds' = {} /\ maxIssueId' = 0
  /\ imp' = NoImp /\ branches' = <<>> /\ hist' = NoHist /\ failed' = {}
  /\ entries' = <<>>

\* pushCreate for a plan: api.createIssue
PlanCreate(p) ==
  /\ FreeIssueIds # {}
  /\ LET i == MinOf(FreeIssueIds)
     IN /\ issues' = [issues EXCEPT ![i] = [CreatedIssue(PlanTodo(p), now) EXCEPT !.source = 0]]
        /\ PlanLocals(p, [NoCur EXCEPT !.mode = "create", !.created = i])
  /\ pc' = "planStamp"

\* createCommand on a plan file: "Already linked" or pushCreate
createCommand_plan(limit) ==
  /\ Quiet /\ checkApiKey /\ passes < limit
  /\ \E p \in PresentPlans :
       IF PlanTodo(p).linear_id # NoLink
       THEN EndCommand /\ issues' = issues
       ELSE PlanCreate(p)
  /\ passes' = passes + 1
  /\ UNCHANGED <<files, now, edits, failures, apiKey, call, plans, out>>

\* pushCommand --file on a plan file: pushUpdate when linked, else pushCreate
pushCommand_plan(limit) ==
  /\ Quiet /\ checkApiKey /\ passes < limit
  /\ \E p \in PresentPlans :
       IF PlanTodo(p).linear_id # NoLink
       THEN /\ issues' = [issues EXCEPT ![PlanTodo(p).linear_id] =
                           [ApplyUpdate(PlanTodo(p), @, now) EXCEPT !.pushedBy = 0]]
            /\ PlanLocals(p, [NoCur EXCEPT !.mode = "push", !.fetches = 1])
            /\ pc' = "planStamp"
       ELSE PlanCreate(p)
  /\ passes' = passes + 1
  /\ UNCHANGED <<files, now, edits, failures, apiKey, call, plans, out>>

\* new Date().toISOString()
plan_stamp ==
  /\ pc = "planStamp"
  /\ stamp' = now
  /\ pc' = "planWrite"
  /\ UNCHANGED <<files, issues, now, dryRun, todos, idx, cur, result, existingLinearIds,
                 maxIssueId, imp, branches, hist, entries, failed, edits, passes, failures>>
  /\ UNCHANGED <<apiKey, call, plans, out>>

\* after pushCreate: its write-back, then updatePlanFrontmatter; after
\* pushUpdate: updateTodoFrontmatter with linear_synced_at alone
plan_write ==
  /\ pc = "planWrite"
  /\ plans' = [plans EXCEPT ![Todo.slot] =
                 IF cur.mode = "create"
                 THEN updatePlanFrontmatter(
                        pushCreate_writeBack(@, cur.created, stamp, now, PlanSkipFileWrite),
                        cur.created, stamp, now)
                 ELSE [@ EXCEPT !.synced = stamp, !.mtime = now]]
  /\ EndCommand
  /\ UNCHANGED <<files, issues, now, edits, passes, failures, apiKey, call, out>>

\* ----------------------------------------------------------- importCommand
\* importCommand: not already imported; importSingleIssue fetches the issue,
\* loads the directory for the next issue_id and takes the timestamp
importCommand_start(limit) ==
  /\ Quiet /\ checkApiKey /\ passes < limit /\ FreeFileSlots # {}
  /\ \E i \in PresentIssues :
       /\ i \notin LinkedIds
       /\ dryRun' = FALSE /\ todos' = loadTodoFiles /\ idx' = 1
       /\ result' = EmptyResult /\ existingLinearIds' = {} /\ maxIssueId' = 0
       /\ branches' = <<>> /\ hist' = NoHist /\ failed' = {} /\ entries' = <<>>
       /\ imp' = [queue |-> <<i>>,
                  maxId |-> MaxOf({files[f].issue_id : f \in PresentFiles}) + 1,
                  created |-> 0]
       /\ cur' = [NoCur EXCEPT !.issue = issues[i], !.mode = "import", !.fetches = 1]
  /\ stamp' = now
  /\ pc' = "importCmdWrite"
  /\ passes' = passes + 1
  /\ UNCHANGED <<files, issues, now, edits, failures>>
  /\ UNCHANGED <<apiKey, call, plans, out>>

\* importSingleIssue: writeText of the new file
importCommand_write ==
  /\ pc = "importCmdWrite"
  /\ files' = WriteNew(ImportedFile(imp.maxId, Head(imp.queue), cur.issue, stamp, now))
  /\ EndCommand
  /\ UNCHANGED <<issues, now, edits, passes, failures>>
  /\ UNCHANGED <<apiKey, call, plans, out>>

\* --------------------------------------------------------------- getStatus
NoNumber == 0 - 1

StatusDirection(syncedAt, linearUpdated, fileMtime) ==
  IF fileMtime > syncedAt /\ linearUpdated <= syncedAt THEN "push"
  ELSE IF linearUpdated > syncedAt /\ fileMtime <= syncedAt THEN "pull"
  ELSE "conflict"

BaseEntry(todo) ==
  [file |-> todo.name, linearId |-> todo.linear_id, fileStatus |-> todo.status,
   filePriority |-> todo.priority, inSync |-> TRUE, linearStatus |-> Undefined,
   linearPriority |-> NoNumber, direction |-> Undefined]

\* the StatusEntry of a linked record whose issue was fetched
StatusEntry(todo, issue, fileMtime) ==
  LET expectedStatus == linearStateToFileStatus(issue.state, DefaultConfig)
      expectedPriority == linearPriorityToFile(issue.priority, DefaultConfig)
      entry == [BaseEntry(todo) EXCEPT !.linearStatus = issue.state,
                                       !.linearPriority = issue.priority]
  IN IF expectedStatus # todo.status \/ expectedPriority # todo.priority
     THEN [entry EXCEPT !.inSync = FALSE,
                        !.direction = StatusDirection(todo.synced, issue.updatedAt, fileMtime)]
     ELSE entry

\* getStatus(todosDir, config): load the directory
getStatus_start(limit) ==
  /\ Quiet /\ checkApiKey /\ passes < limit
  /\ CommandInit(loadTodoFiles)
  /\ pc' = IF Len(loadTodoFiles) > 0 THEN "status" ELSE "idle"
  /\ passes' = passes + 1
  /\ UNCHANGED <<files, issues, now, edits, failures>>
  /\ UNCHANGED <<apiKey, call, plans, out>>

\* getStatus loop: after the last file the entries are returned
StatusNext ==
  /\ idx' = idx + 1
  /\ pc' = IF idx + 1 <= Len(todos) THEN "status" ELSE "idle"
  /\ UNCHANGED <<dryRun, todos, cur, stamp, result, existingLinearIds, maxIssueId, imp,
                 branches, hist, failed>>

\* a getStatus loop that stamps linear_synced_at on the files it reports
getStatus_recordStamping ==
  /\ pc = "status"
  /\ entries' = Append(entries,
        IF Todo.linear_id # NoLink
        THEN StatusEntry(Todo, issues[Todo.linear_id], files[Todo.slot].mtime)
        ELSE [BaseEntry(Todo) EXCEPT !.inSync = FALSE, !.direction = "push"])
  /\ files' = [files EXCEPT ![Todo.slot].synced = IF Todo.linear_id # NoLink THEN now ELSE @]
  /\ StatusNext
  /\ UNCHANGED <<issues, now, edits, passes, failures>>
  /\ UNCHANGED <<apiKey, call, plans, out>>

\* getStatus loop: one entry per file
getStatus_record ==
  /\ pc = "status"
  /\ entries' = Append(entries,
        IF Todo.linear_id # NoLink
        THEN StatusEntry(Todo, issues[Todo.linear_id], files[Todo.slot].mtime)
        ELSE [BaseEntry(Todo) EXCEPT !.inSync = FALSE, !.direction = "push"])
  /\ StatusNext
  /\ UNCHANGED <<files, issues, now, edits, passes, failures>>
  /\ UNCHANGED <<apiKey, call, plans, out>>

\* getStatus loop: the fetch throws; the catch marks the entry
getStatus_catch ==
  /\ pc = "status" /\ Todo.linear_id # NoLink
  /\ failures < MaxFailures
  /\ failures' = failures + 1
  /\ entries' = Append(entries, [BaseEntry(Todo) EXCEPT !.inSync = FALSE,
                                                        !.linearStatus = "ERROR"])
  /\ StatusNext
  /\ UNCHANGED <<files, issues, now, edits, passes>>
  /\ UNCHANGED <<apiKey, call, plans, out>>

\* ------------------------------------------------- helpers on their own
\* everything but the helper call
engineVars == <<files, issues, now, pc, dryRun, todos, idx, cur, stamp, result,
                existingLinearIds, maxIssueId, imp, branches, hist, entries, failed,
                edits, passes, failures, apiKey, plans, out>>

AllStatuses == {StatusOrder[i] : i \in 1..Len(StatusOrder)}

\* state names of workspaces, in the spellings teams use
StateNames == {"Triage", "Todo", "TODO", "Done", "In Progress", "Cancelled", "Canceled",
               "Backlog"}

\* status maps a configuration may carry instead of DEFAULT_STATUS_MAP
StatusMaps ==
  { DEFAULT_STATUS_MAP,
    << <<"pending", "Backlog">>, <<"ready", "Todo">>, <<"in_progress", "In Progress">>,
       <<"complete", "Done">>, <<"cancelled", "Canceled">> >>,
    << <<"pending", "Triage">>, <<"ready", "TODO">>, <<"in_progress", "In Progress">>,
       <<"complete", "DONE">>, <<"cancelled", "Cancelled">> >> }

\* priority maps a configuration may carry instead of DEFAULT_PRIORITY_MAP
PriorityMaps ==
  { DEFAULT_PRIORITY_MAP, [p1 |-> 2, p2 |-> 3, p3 |-> 4], [p1 |-> 1, p2 |-> 3, p3 |-> 4] }

Configs ==
  {[statusMap |-> sm, priorityMap |-> DEFAULT_PRIORITY_MAP] : sm \in StatusMaps}
    \cup {[statusMap |-> DEFAULT_STATUS_MAP, priorityMap |-> pm] : pm \in PriorityMaps}
    \cup {[teamKey |-> "ENG"]}

\* lists of workflow states api.listStates may return
StateLists ==
  UNION {[1..n -> StateNames] : n \in 0..MaxStates}

WithIds(names) == [i \in 1..Len(names) |-> [id |-> i, name |-> names[i]]]

\* file names, split at "-": of the four-token shape, longer, and shorter
FileNames ==
  { <<"007">>, <<"007", "pending">>, <<"007", "pending", "p2">>,
    <<"007", "pending", "p2", "fix">>, <<"007", "pending", "p2", "fix", "bug">>,
    <<"notes", "on", "the", "release">>, <<"042", "ready", "p1", "rate", "limiter">> }

Dirs == {"todos", "todos/archive"}

Teams == << [id |-> "T1", key |-> "ENG"], [id |-> "T2", key |-> "OPS"],
            [id |-> "T3", key |-> "WEB"] >>

\* what api.listTeams may return
TeamLists ==
  UNION {{t \in [1..n -> 1..Len(Teams)] : \A i, j \in 1..n : i # j => t[i] # t[j]} :
           n \in 0..MaxTeams}

\* environment of resolveConfig: LINEAR_TEAM_ID, LINEAR_TEAM_KEY, and
\* linear_team_id, linear_team_key of compound-engineering.local.md ("" = unset)
Environments ==
  [envTeamId : {"", "T1"}, envTeamKey : {"", "ENG"},
   fileTeamId : {"", "T2"}, fileTeamKey : {"", "OPS"},
   teams : TeamLists]

\* resolveConfig(projectRoot) with LINEAR_API_KEY set
resolveConfig(env) ==
  LET teamId == IF env.fileTeamId # "" THEN env.fileTeamId ELSE env.envTeamId
      teamKey == IF env.fileTeamKey # "" THEN env.fileTeamKey ELSE env.envTeamKey
      n == Len(env.teams)
  IN IF teamId = "" \/ teamKey = ""
     THEN IF n = 1
          THEN [threw |-> "", teamId |-> Teams[env.teams[1]].id,
                teamKey |-> Teams[env.teams[1]].key, listed |-> TRUE]
          ELSE IF n > 1
          THEN [threw |-> "Multiple teams found", teamId |-> "", teamKey |-> "",
                listed |-> TRUE]
          ELSE [threw |-> "No teams found", teamId |-> "", teamKey |-> "",
                listed |-> TRUE]
     ELSE [threw |-> "", teamId |-> teamId, teamKey |-> teamKey, listed |-> FALSE]

\* the helper applications: name of the helper and its arguments
\* the workflow states api.listStates may return for a team: the states of
\* the workspace and a state spelled Cancelled, in lists of up to MaxStates
TypedStates ==
  {WorkflowStates[i] : i \in 1..Len(WorkflowStates)}
    \cup {[id |-> Len(WorkflowStates) + 1, name |-> "Cancelled", type |-> "canceled"]}

TeamStateLists == UNION {[1..n -> TypedStates] : n \in 0..MaxStates}

Calls ==
  [fn : {"fileStatusToLinearState"}, done : {FALSE}, status : AllStatuses \cup {"blocked"},
   names : StateLists, config : Configs]
  \cup [fn : {"linearStateToFileStatus"}, done : {FALSE}, stateName : StateNames,
        config : Configs]
  \cup [fn : {"filePriorityToLinear"}, done : {FALSE}, priority : Priorities \cup {"p4", ""},
        config : Configs]
  \cup [fn : {"linearPriorityToFile"}, done : {FALSE}, priority : 0..5, config : Configs]
  \cup [fn : {"renameTodoFile"}, done : {FALSE}, dir : Dirs, name : FileNames,
        newStatus : AllStatuses, newPriority : Priorities]
  \cup [fn : {"resolveConfig"}, done : {FALSE}, env : Environments]
  \cup [fn : {"pushCancel"}, done : {FALSE}, state : RemoteStateNames,
        states : TeamStateLists, comment : BOOLEAN]

InitHelpers ==
  /\ files = [f \in FileSlots |-> BlankFile]
  /\ issues = [i \in IssueIds |-> BlankIssue]
  /\ InitLocals
  /\ apiKey = TRUE
  /\ call \in Calls
  /\ plans = NoPlans
  /\ out = NoOutput

Return(value) == [fn |-> call.fn, done |-> TRUE, args |-> call, ret |-> value]

fileStatusToLinearState_call ==
  /\ call.fn = "fileStatusToLinearState" /\ ~call.done
  /\ call' = Return(fileStatusToLinearState(call.status, WithIds(call.names), call.config))
  /\ UNCHANGED engineVars

linearStateToFileStatus_call ==
  /\ call.fn = "linearStateToFileStatus" /\ ~call.done
  /\ call' = Return(linearStateToFileStatus(call.stateName, call.config))
  /\ UNCHANGED engineVars

filePriorityToLinear_call ==
  /\ call.fn = "filePriorityToLinear" /\ ~call.done
  /\ call' = Return(filePriorityToLinear(call.priority, call.config))
  /\ UNCHANGED engineVars

linearPriorityToFile_call ==
  /\ call.fn = "linearPriorityToFile" /\ ~call.done
  /\ call' = Return(linearPriorityToFile(call.priority, call.config))
  /\ UNCHANGED engineVars

\* path.join(path.dirname(oldPath), new base name)
renameTodoFile_call ==
  /\ call.fn = "renameTodoFile" /\ ~call.done
  /\ call' = Return([dir |-> call.dir,
                     name |-> renameTodoFile(call.name, call.newStatus, call.newPriority)])
  /\ UNCHANGED engineVars

resolveConfig_call ==
  /\ call.fn = "resolveConfig" /\ ~call.done
  /\ call' = Return(resolveConfig(call.env))
  /\ UNCHANGED engineVars

\* pushCancel(linearId, states, comment) on an issue in call.state
pushCancel_call ==
  /\ call.fn = "pushCancel" /\ ~call.done
  /\ call' = Return(pushCancel([BlankIssue EXCEPT !.present = TRUE, !.state = call.state],
                               call.states, call.comment, now))
  /\ UNCHANGED engineVars

NextHelpers ==
  \/ fileStatusToLinearState_call
  \/ linearStateToFileStatus_call
  \/ filePriorityToLinear_call
  \/ linearPriorityToFile_call
  \/ renameTodoFile_call
  \/ resolveConfig_call
  \/ pushCancel_call

SpecHelpers == InitHelpers /\ [][NextHelpers]_vars

\* --------------------------------------------------------- opencode.json
\* An OpenCodeConfig is a function from its top-level keys to values; the
\* value of mcp, permission and tools is a function from entry names to
\* values.  "u" is a value the user wrote, "p" a value the plugin brings.
EntryOrder == <<"a", "b", "c">>
EntryKeys == {EntryOrder[k] : k \in 1..MaxEntries}
GroupKeys == {"mcp", "permission", "tools"}
MergedKeys == {"$schema"} \cup GroupKeys

\* objects with the given keys, every scalar and every entry valued v
ConfigsOf(scalars, v) ==
  UNION {UNION {[(sk \cup gk) -> {v}] : gk \in SUBSET GroupKeys} : sk \in SUBSET scalars}

Entries(v) == UNION {[ek -> {v}] : ek \in SUBSET EntryKeys}

ConfigsWith(scalars, v) ==
  UNION {{[k \in DOMAIN c |-> IF k \in GroupKeys THEN g[k] ELSE c[k]] :
            g \in [GroupKeys -> Entries(v)]} : c \in ConfigsOf(scalars, v)}

\* what the user has in opencode.json, and what a bundle brings
UserConfigs == ConfigsWith({"$schema", "model"}, "u")
PluginConfigs == ConfigsWith({"$schema"}, "p")

\* the file at configPath: missing (NoConfigFile), not valid JSON, or a config
BadConfigFile == [kind |-> "invalid", json |-> <<>>]
ConfigFile(config) == [kind |-> "json", json |-> config]

\* { ...a, ...b }
Spread(a, b) ==
  [k \in DOMAIN a \cup DOMAIN b |-> IF k \in DOMAIN b THEN b[k] ELSE a[k]]

\* x.k ?? {}
OrEmpty(x, k) == IF k \in DOMAIN x THEN x[k] ELSE <<>>

\* mergeOpenCodeConfig, as writeJson writes its result: a key whose value is
\* undefined is not written
mergeOpenCodeConfig(file, incoming) ==
  IF file.kind = "absent" THEN incoming
  ELSE IF file.kind = "invalid" THEN incoming
  ELSE LET existing == file.json
           mergedMcp == Spread(OrEmpty(incoming, "mcp"), OrEmpty(existing, "mcp"))
           mergedGroup(k) == IF k \in DOMAIN incoming
                             THEN Spread(incoming[k], OrEmpty(existing, k))
                             ELSE existing[k]
           defined(k) ==
             CASE k = "$schema" -> k \in DOMAIN incoming \/ k \in DOMAIN existing
               [] k = "mcp" -> DOMAIN mergedMcp # {}
               [] OTHER -> k \in DOMAIN incoming \/ k \in DOMAIN existing
           keys == (DOMAIN existing \ MergedKeys) \cup {k \in MergedKeys : defined(k)}
       IN [k \in keys |->
             CASE k = "$schema" -> IF k \in DOMAIN incoming THEN incoming[k] ELSE existing[k]
               [] k = "mcp" -> mergedMcp
               [] k \in {"permission", "tools"} -> mergedGroup(k)
               [] OTHER -> existing[k]]

\* ---------------------------------------------------- writeOpenCodeBundle
\* contents of agent and command files: the user's, and two a bundle brings
UserText == "u"
BundleTexts == {"p", "q"}

\* configs of the files the writer meets and of the bundles it writes
WriterUserConfigs == {c \in UserConfigs : DOMAIN c \subseteq {"model", "mcp"}}
WriterPluginConfigs ==
  {c \in PluginConfigs : "$schema" \in DOMAIN c /\ DOMAIN c \subseteq {"$schema", "mcp"}}
WriterFiles == {NoConfigFile, BadConfigFile} \cup {ConfigFile(c) : c \in WriterUserConfigs}

\* an OpenCodeBundle; plugins and skillDirs are empty
Bundles ==
  {[config |-> c, agents |-> a, commandFiles |-> f] :
     c \in WriterPluginConfigs,
     a \in {<<>>, <<[name |-> "r", content |-> "p"]>>},
     f \in {<<>>} \cup UNION {{<<[name |-> "x", content |-> t]>>,
                                <<[name |-> "x", content |-> t],
                                  [name |-> "y", content |-> t]>>} : t \in BundleTexts}}

Bundle == call.bundle

\* backupFile: null when the file does not exist, else a copy of the file
\* under a new name <path>.bak.<timestamp>
backupFile(backups, exists, content) ==
  IF exists THEN Append(backups, content) ELSE backups

\* the user changes opencode.json or a command file
UserEditOutput(limit) ==
  /\ Quiet /\ edits < limit
  /\ \/ \E f \in WriterFiles \ {NoConfigFile} :
          f # out.config /\ out' = [out EXCEPT !.config = f]
     \/ \E n \in CommandNames :
          out.commands[n] # UserText /\ out' = [out EXCEPT !.commands[n] = UserText]
  /\ edits' = edits + 1 /\ pc' = "idle" /\ PassLocalsReset
  /\ UNCHANGED <<files, issues, now, passes, failures, apiKey, call, plans>>

\* where the writer goes after the agent or command file of index i - 1
AfterAgent(b, i) ==
  IF i <= Len(b.agents) THEN "ocAgent"
  ELSE IF Len(b.commandFiles) > 0 THEN "ocCmdBackup" ELSE "ocReturn"

\* a writer that does not back up opencode.json
writeOpenCodeBundle_startNoBackup(limit) ==
  /\ Quiet /\ passes < limit
  /\ \E b \in Bundles : call' = [fn |-> "writeOpenCodeBundle", done |-> FALSE, bundle |-> b]
  /\ CommandInit(<<>>)
  /\ pc' = "ocConfig"
  /\ passes' = passes + 1
  /\ UNCHANGED <<files, issues, now, edits, failures, apiKey, plans, out>>

\* writeOpenCodeBundle: ensureDir, then backupFile(configPath)
writeOpenCodeBundle_start(limit) ==
  /\ Quiet /\ passes < limit
  /\ \E b \in Bundles : call' = [fn |-> "writeOpenCodeBundle", done |-> FALSE, bundle |-> b]
  /\ out' = [out EXCEPT !.bak = backupFile(@, out.config.kind # "absent", out.config)]
  /\ CommandInit(<<>>)
  /\ pc' = "ocConfig"
  /\ passes' = passes + 1
  /\ UNCHANGED <<files, issues, now, edits, failures, apiKey, plans>>

\* writeOpenCodeBundle: mergeOpenCodeConfig, writeJson(configPath, merged)
writeOpenCodeBundle_config ==
  /\ pc = "ocConfig"
  /\ out' = [out EXCEPT !.config = ConfigFile(mergeOpenCodeConfig(@, Bundle.config))]
  /\ idx' = 1
  /\ pc' = AfterAgent(Bundle, 1)
  /\ UNCHANGED <<files, issues, now, dryRun, todos, cur, stamp, result, existingLinearIds,
                 maxIssueId, imp, branches, hist, entries, failed, edits, passes, failures>>
  /\ UNCHANGED <<apiKey, call, plans>>

\* writeOpenCodeBundle: writeText of an agent file
writeOpenCodeBundle_agent ==
  /\ pc = "ocAgent"
  /\ out' = [out EXCEPT !.agents[Bundle.agents[idx].name] = Bundle.agents[idx].content]
  /\ idx' = IF idx + 1 <= Len(Bundle.agents) THEN idx + 1 ELSE 1
  /\ pc' = AfterAgent(Bundle, idx + 1)
  /\ UNCHANGED <<files, issues, now, dryRun, todos, cur, stamp, result, existingLinearIds,
                 maxIssueId, imp, branches, hist, entries, failed, edits, passes, failures>>
  /\ UNCHANGED <<apiKey, call, plans>>

\* writeOpenCodeBundle: backupFile(dest) of a command file
writeOpenCodeBundle_commandBackup ==
  /\ pc = "ocCmdBackup"
  /\ LET name == Bundle.commandFiles[idx].name
     IN out' = [out EXCEPT !.cmdBak = backupFile(@, out.commands[name] # NoText,
                                                 [name |-> name, content |-> out.commands[name]])]
  /\ pc' = "ocCmdWrite"
  /\ UNCHANGED <<files, issues, now, dryRun, todos, idx, cur, stamp, result, existingLinearIds,
                 maxIssueId, imp, branches, hist, entries, failed, edits, passes, failures>>
  /\ UNCHANGED <<apiKey, call, plans>>

\* writeOpenCodeBundle: writeText(dest) of a command file
writeOpenCodeBundle_commandWrite ==
  /\ pc = "ocCmdWrite"
  /\ out' = [out EXCEPT !.commands[Bundle.commandFiles[idx].name] =
                          Bundle.commandFiles[idx].content]
  /\ idx' = idx + 1
  /\ pc' = IF idx + 1 <= Len(Bundle.commandFiles) THEN "ocCmdBackup" ELSE "ocReturn"
  /\ UNCHANGED <<files, issues, now, dryRun, todos, cur, stamp, result, existingLinearIds,
                 maxIssueId, imp, branches, hist, entries, failed, edits, passes, failures>>
  /\ UNCHANGED <<apiKey, call, plans>>

\* writeOpenCodeBundle: no plugins, no skills; the writer returns
writeOpenCodeBundle_return ==
  /\ pc = "ocReturn"
  /\ call' = [call EXCEPT !.done = TRUE]
  /\ EndCommand
  /\ UNCHANGED <<files, issues, now, edits, passes, failures, apiKey, plans, out>>

InitWriter ==
  /\ files = [f \in FileSlots |-> BlankFile]
  /\ issues = [i \in IssueIds |-> BlankIssue]
  /\ InitLocals
  /\ apiKey = TRUE
  /\ call = NoCall
  /\ plans = NoPlans
  /\ \E f \in WriterFiles, t \in {NoText, UserText} :
       out = [NoOutput EXCEPT !.config = f, !.commands["x"] = t]

NextWriter ==
  \/ UserEditOutput(MaxWriterEdits)
  \/ writeOpenCodeBundle_start(MaxWriterPasses)
  \/ writeOpenCodeBundle_config
  \/ writeOpenCodeBundle_agent
  \/ writeOpenCodeBundle_commandBackup
  \/ writeOpenCodeBundle_commandWrite
  \/ writeOpenCodeBundle_return

SpecWriter == InitWriter /\ [][NextWriter]_vars

\* -------------------------------------------------- convertClaudeToCursor
\* A name is its namespace (the part before the last colon, "" if none) and
\* its base; a base and a normalized name are the sequence of the tokens
\* that hyphens join: "Plan 2" and "plan-2" are both <<"plan", "2">>.
ClaudeNames ==
  {[ns |-> "", base |-> <<"plan">>], [ns |-> "workflows", base |-> <<"plan">>],
   [ns |-> "", base |-> <<"plan", "2">>], [ns |-> "", base |-> <<"plan", "2", "2">>],
   [ns |-> "", base |-> <<"plan", "3">>], [ns |-> "", base |-> <<>>]}

\* the decimal numeral of an index
IndexStr == <<"1", "2", "3", "4", "5", "6", "7", "8", "9">>

\* normalizeName: lower case, separators to hyphens; "item" if nothing is left
normalizeName(tokens) == IF tokens = <<>> THEN <<"item">> ELSE tokens

\* normalizeName of a whole name: the colon becomes a hyphen
normalizeWhole(name) ==
  normalizeName(IF name.ns = "" THEN name.base ELSE <<name.ns>> \o name.base)

\* flattenCommandName: what follows the last colon, normalized
flattenCommandName(name) == normalizeName(name.base)

\* uniqueName that tries the suffix 2 only
uniqueNameFirstSuffix(base, used) ==
  IF base \notin used THEN base ELSE Append(base, IndexStr[2])

\* uniqueName: the loop `while (used.has(base-index)) index += 1`
RECURSIVE uniqueIndex(_, _, _)
uniqueIndex(base, used, index) ==
  IF Append(base, IndexStr[index]) \in used
  THEN uniqueIndex(base, used, index + 1) ELSE index

\* uniqueName: the name it returns (and adds to used)
uniqueName(base, used) ==
  IF base \notin used THEN base
  ELSE Append(base, IndexStr[uniqueIndex(base, used, 2)])

\* plugin.commands.map(convertCommand) and plugin.agents.map(convertAgentToRule):
\* the names, in order, with the set of used names growing
RECURSIVE convertNames(_, _, _)
convertNames(bases, used, k) ==
  IF k > Len(bases) THEN <<>>
  ELSE LET name == uniqueName(bases[k], used)
       IN <<name>> \o convertNames(bases, used \cup {name}, k + 1)

\* convertClaudeToCursor: the names of the rules and of the commands
convertClaudeToCursor(plugin) ==
  [rules |-> convertNames([k \in 1..Len(plugin.agents) |-> normalizeWhole(plugin.agents[k])],
                          {}, 1),
   commands |-> convertNames([k \in 1..Len(plugin.commands) |->
                                flattenCommandName(plugin.commands[k])], {}, 1)]

SeqsUpTo(S, n) == UNION {[1..k -> S] : k \in 0..n}

\* ------------------------------------------------ converters on their own
ConvertCalls ==
  [fn : {"mergeOpenCodeConfig"}, done : {FALSE},
   file : {NoConfigFile, BadConfigFile} \cup {ConfigFile(c) : c \in UserConfigs},
   incoming : PluginConfigs]
  \cup [fn : {"convertClaudeToCursor"}, done : {FALSE},
        agents : SeqsUpTo(ClaudeNames, MaxAgents),
        commands : SeqsUpTo(ClaudeNames, MaxCommands)]

InitConvert ==
  /\ files = [f \in FileSlots |-> BlankFile]
  /\ issues = [i \in IssueIds |-> BlankIssue]
  /\ InitLocals
  /\ apiKey = TRUE
  /\ call \in ConvertCalls
  /\ plans = NoPlans
  /\ out = NoOutput

mergeOpenCodeConfig_call ==
  /\ call.fn = "mergeOpenCodeConfig" /\ ~call.done
  /\ call' = Return(mergeOpenCodeConfig(call.file, call.incoming))
  /\ UNCHANGED engineVars

convertClaudeToCursor_call ==
  /\ call.fn = "convertClaudeToCursor" /\ ~call.done
  /\ call' = Return(convertClaudeToCursor(call))
  /\ UNCHANGED engineVars

NextConvert ==
  \/ mergeOpenCodeConfig_call
  \/ convertClaudeToCursor_call

SpecConvert == InitConvert /\ [][NextConvert]_vars

\* -------------------------------------------------------------------- spec
\* the steps of the environment and of a pass in which every call succeeds
Run(editLimit, passLimit) ==
  \/ Tick
  \/ UserCreateFile(editLimit)
  \/ UserEdit(editLimit)
  \/ RemoteCreate(editLimit)
  \/ RemoteEdit(editLimit)
  \/ RemoteComment(editLimit)
  \/ \E dry \in BOOLEAN : syncAll_start(dry, passLimit)
  \/ syncAll_linked
  \/ syncAll_unlinked
  \/ pushUpdate_remote
  \/ pushUpdate_stamp
  \/ pushUpdate_write
  \/ pullState_read
  \/ pullState_write
  \/ pullComments_read
  \/ pullComments_write
  \/ pushCreate_remote
  \/ pushCreate_stamp
  \/ pushCreate_write
  \/ pullNewIssues_list
  \/ pullNewIssues_stamp
  \/ pullNewIssues_write

\* every call succeeds and every pass runs to its end
Next == Run(MaxEdits, MaxPasses)

Spec == Init /\ [][Next]_vars

\* the same, fewer edits and more passes
NextLong == Run(MaxLongEdits, MaxLongPasses)

SpecLong == Init /\ [][NextLong]_vars

\* calls may throw and the process may be killed
NextFail ==
  \/ Run(MaxEdits, MaxFailPasses)
  \/ Interrupt
  \/ syncAll_catch
  \/ syncAll_catchNew

SpecFail == Init /\ [][NextFail]_vars

\* the commands of the CLI next to syncAll
Commands(passLimit) ==
  \/ pullCommand_start(passLimit)
  \/ pullCommand_skip
  \/ pullCommand_state
  \/ pullCommand_write
  \/ pullCommand_comments
  \/ pullCommand_log
  \/ pullCommand_list
  \/ pullCommand_importStamp
  \/ pullCommand_importWrite
  \/ pushCommand_start(passLimit)
  \/ pushCommand_update
  \/ pushCommand_create
  \/ pushCommand_stamp
  \/ pushCommand_write
  \/ importCommand_start(passLimit)
  \/ importCommand_write
  \/ getStatus_start(passLimit)
  \/ getStatus_record
  \/ getStatus_catch

\* syncAll and the commands, every call but getStatus's fetch succeeding
NextCmd == Run(MaxCmdEdits, MaxCmdPasses) \/ Commands(MaxCmdPasses)

SpecCmd == Init /\ [][NextCmd]_vars

\* the subcommands of the CLI, one run each, calls of push and pull may throw
NextCli ==
  \/ Run(MaxCliEdits, MaxCliPasses)
  \/ Commands(MaxCliPasses)
  \/ pushCommand_throw
  \/ pullCommand_throw
  \/ cancelCommand(MaxCliPasses)
  \/ configCommand(MaxCliPasses)
  \/ command_skip(MaxCliPasses)

SpecCli == InitCli /\ [][NextCli]_vars

\* a workspace whose issue is in any state and of any priority, nothing
\* imported yet; afterwards nobody edits a status, a state or a priority
InitRound ==
  /\ \E sn \in RemoteStateNames, pr \in LinearPriorities, u \in 0..MaxNewFiles :
       /\ issues = [i \in IssueIds |->
                      IF i = 1
                      THEN [BlankIssue EXCEPT !.present = TRUE, !.state = sn,
                                               !.priority = pr, !.updatedAt = 1]
                      ELSE BlankIssue]
       /\ files = [f \in FileSlots |-> IF f <= u THEN NewFile(f, 1) ELSE BlankFile]
  /\ InitLocals
  /\ apiKey = TRUE
  /\ call = NoCall
  /\ plans = NoPlans
  /\ out = NoOutput

NextRound ==
  \/ Tick
  \/ UserEditTitle(MaxRoundEdits)
  \/ RemoteEditTitle(MaxRoundEdits)
  \/ RemoteComment(MaxRoundEdits)
  \/ \E dry \in BOOLEAN : syncAll_start(dry, MaxRoundPasses)
  \/ syncAll_linked
  \/ syncAll_unlinked
  \/ pushUpdate_remote
  \/ pushUpdate_stamp
  \/ pushUpdate_write
  \/ pullState_read
  \/ pullState_write
  \/ pullComments_read
  \/ pullComments_write
  \/ pushCreate_remote
  \/ pushCreate_stamp
  \/ pushCreate_write
  \/ pullNewIssues_list
  \/ pullNewIssues_stamp
  \/ pullNewIssues_write
  \/ pushCommand_start(MaxRoundPasses)
  \/ pushCommand_update
  \/ pushCommand_create
  \/ pushCommand_stamp
  \/ pushCommand_write
  \/ importCommand_start(MaxRoundPasses)
  \/ importCommand_write

SpecRound == InitRound /\ [][NextRound]_vars

\* plan files and the two commands that take one
InitPlan ==
  /\ files = [f \in FileSlots |-> BlankFile]
  /\ issues = [i \in IssueIds |-> BlankIssue]
  /\ InitLocals
  /\ apiKey = TRUE
  /\ call = NoCall
  /\ plans \in {[p \in PlanSlots |->
                   IF p <= n THEN [BlankPlan EXCEPT !.present = TRUE, !.mtime = 1]
                   ELSE BlankPlan] : n \in 0..MaxPlans}
  /\ out = NoOutput

NextPlan ==
  \/ Tick
  \/ UserCreatePlan(MaxPlanEdits)
  \/ UserEditPlan(MaxPlanEdits)
  \/ RemoteEdit(MaxPlanEdits)
  \/ createCommand_plan(MaxPlanPasses)
  \/ pushCommand_plan(MaxPlanPasses)
  \/ plan_stamp
  \/ plan_write

SpecPlan == InitPlan /\ [][NextPlan]_vars

TypeOK ==
  /\ now \in 1..MaxTime
  /\ pc \in {"idle", "done", "record", "pushUpdate", "pushStamp", "pushWrite",
             "pullState", "pullWrite", "pullComments", "commentWrite",
             "pushCreate", "createStamp", "createWrite",
             "discover", "importStamp", "importWrite",
             "pullCmd", "pullCmdWrite", "pullCmdComments", "pullCmdLog", "pullCmdList",
             "pullCmdImportStamp", "pullCmdImportWrite",
             "pushCmd", "pushCmdStamp", "pushCmdWrite", "importCmdWrite", "status",
             "planStamp", "planWrite",
             "ocConfig", "ocAgent", "ocCmdBackup", "ocCmdWrite", "ocReturn",
             "thrown", "skipped"}
  /\ \A f \in PresentFiles : files[f].linear_id \in {NoLink} \cup PresentIssues


\* ------------------------------------------------------------------ claims
LivePassDone == pc = "done" /\ ~dryRun
DryThenLive == LivePassDone /\ hist.valid /\ hist.dryRun /\ failed = {} /\ hist.failed = {}
LiveThenLive == LivePassDone /\ hist.valid /\ ~hist.dryRun /\ failed = {} /\ hist.failed = {}

Counters(res) ==
  <<res.pushed.created, res.pushed.updated, res.pulled.updated, res.pulled.created,
    res.pulled.comments>>

BranchNames(log) == [k \in 1..Len(log) |-> log[k].branch]

EntriesFor(todo) ==
  {k \in 1..Len(result.conflicts) :
     result.conflicts[k].file = todo.name /\ result.conflicts[k].linearId = todo.linear_id}

\* C1: a live pass that directly follows a live pass, with no edit on either
\* side in between, pushes nothing and pulls nothing.
C1_SecondRunIdle ==
  LiveThenLive => Counters(result) = <<0, 0, 0, 0, 0>>

\* C2: a live pass overwrites a status or priority on the losing side of a
\* record both sides changed only if result.conflicts has an entry for the
\* record.
C2_NoSilentOverwrite ==
  [][(/\ cur.mode = "conflict"
      /\ \/ /\ pc = "pullWrite"
            /\ \/ files'[Todo.slot].status # files[Todo.slot].status
               \/ files'[Todo.slot].priority # files[Todo.slot].priority
         \/ /\ pc = "pushUpdate"
            /\ \/ issues'[Todo.linear_id].state # issues[Todo.linear_id].state
               \/ issues'[Todo.linear_id].priority # issues[Todo.linear_id].priority)
     => EntriesFor(Todo) # {}]_vars

\* C3: after a live pass, for every record both sides of which had changed:
\* if the remote updatedAt was earlier than the file mtime the remote state is
\* the state mapped from the file's status, if it was later the file's status
\* is the status mapped from the remote state; the ConflictEntry names that
\* winner.
C3_WinnerApplied ==
  (LivePassDone /\ failed = {}) =>
    \A k \in 1..Len(todos) :
      branches[k].branch = "conflict" =>
        LET t == todos[k]
            b == branches[k]
            state == fileStatusToLinearState(t.status, WorkflowStates, DefaultConfig)
            status == linearStateToFileStatus(b.state, DefaultConfig)
        IN /\ b.linearUpdated < b.fileMtime =>
                /\ state # NoState => issues[t.linear_id].state = state.name
                /\ \A e \in EntriesFor(t) : result.conflicts[e].winner = "file"
           /\ b.fileMtime < b.linearUpdated =>
                /\ status # Undefined => files[t.slot].status = status
                /\ \A e \in EntriesFor(t) : result.conflicts[e].winner = "linear"

\* records of the pass that took a given branch
NumBranch(b) == Cardinality({k \in 1..Len(branches) : branches[k].branch = b})

\* records of the pass whose conflict was decided for a given side
ConflictsWon(w) ==
  Cardinality({k \in 1..Len(branches) :
                 /\ branches[k].branch = "conflict"
                 /\ Winner(branches[k].linearUpdated, branches[k].fileMtime) = w})

FetchFailedAt(k) == k \in 1..Len(branches) /\ branches[k].branch = "error"

\* C4: when the fetch of one linked record throws (and nothing else fails),
\* the pass still ends with a result: every record of the snapshot was
\* visited, result.errors is exactly one entry naming the failing record's
\* file, and the counters are those of the branches the other records took
\* (before and after the failure).
C4_FetchFailureIsolated ==
  (pc = "done" /\ \E k \in 1..Len(branches) : FetchFailedAt(k) /\ failed = {k}) =>
    /\ Len(branches) = Len(todos)
    /\ \E k \in 1..Len(branches) :
         /\ FetchFailedAt(k)
         /\ result.errors = <<ErrorEntry("sync", todos[k].name)>>
    /\ result.skipped = NumBranch("skip")
    /\ result.pushed.created = NumBranch("create")
    /\ result.pushed.updated =
         NumBranch("push") + (IF dryRun THEN 0 ELSE ConflictsWon("file"))
    /\ result.pulled.updated >= (IF dryRun THEN NumBranch("pull") ELSE ConflictsWon("linear"))
    /\ result.pulled.updated <= NumBranch("pull") + (IF dryRun THEN 0 ELSE ConflictsWon("linear"))

\* the first record's fetch threw and the second record was then reconciled
C4_Witness ==
  /\ LivePassDone /\ Len(todos) >= 2 /\ Len(branches) = Len(todos)
  /\ FetchFailedAt(1) /\ failed = {1}
  /\ branches[2].branch \in {"create", "push", "pull", "conflict"}
  /\ Counters(result) # <<0, 0, 0, 0, 0>>

\* C5: whenever no pass is running (it ended, or it was killed), every issue
\* a push-create made is linked from the file it was made for, and every
\* issue a push wrote has the pushing file's lastSyncedAt at or after it:
\* the remote write and the file write of a record happened both or neither.
C5_AllOrNothing ==
  Quiet =>
    \A i \in PresentIssues :
      /\ issues[i].source # 0 => files[issues[i].source].linear_id = i
      /\ issues[i].pushedBy # 0 => files[issues[i].pushedBy].synced >= issues[i].updatedAt

\* C6: no step of a dry-run pass changes the directory or the remote issues.
C6_DryRunFrame ==
  [][(dryRun' /\ pc' # "idle") => (files' = files /\ issues' = issues)]_vars

\* a dry run that met an unlinked record and a record in conflict
C6_Witness ==
  /\ pc = "done" /\ dryRun
  /\ result.pushed.created > 0
  /\ Len(result.conflicts) > 0

\* C7: a live pass that directly follows a dry run of the same directory and
\* remote state returns the five counters the dry run returned.
C7_SameCounters ==
  DryThenLive => Counters(result) = Counters(hist.result)

\* C8: a live pass that directly follows a dry run of the same directory and
\* remote state takes, record by record, the branch the dry run reported,
\* and returns the same conflicts list.
C8_SameBranches ==
  DryThenLive =>
    /\ BranchNames(branches) = BranchNames(hist.branches)
    /\ result.conflicts = hist.result.conflicts

\* C9: after a live pass no remote identifier is the linear_id of two files.
C9_NoDoubleLink ==
  (LivePassDone /\ failed = {}) =>
    \A f, g \in PresentFiles :
      (f # g /\ files[f].linear_id # NoLink) => files[f].linear_id # files[g].linear_id

\* C10: the step of a live pass that counts a linked record as skipped also
\* sets the record's lastSyncedAt to the current time.
C10_SkipRefreshes ==
  [][(/\ pc = "record" /\ ~dryRun /\ Todo.linear_id # NoLink
      /\ result'.skipped = result.skipped + 1)
     => files'[Todo.slot].synced = now]_vars

\* C11: while a linked record is processed its issue has been fetched at most
\* once, whatever the branch.
C11_FetchedOnce ==
  cur.fetches <= 1

\* createdAt of the remote comment a Work Log entry was made from
CreatedAt(e) == issues[e.issue].comments[e.id]

LogEntries(f) == {files[f].log[a] : a \in 1..Len(files[f].log)}

\* C12: over any sequence of live passes without failures, every Work Log
\* lists its comments in ascending createdAt order and lists none twice; and
\* a pass that took the pull branch for a record has appended every comment
\* created after the lastSyncedAt the record was loaded with.
C12_CommentsOnceInOrder ==
  /\ \A f \in PresentFiles :
       \A a, b \in 1..Len(files[f].log) :
         a < b => /\ files[f].log[a] # files[f].log[b]
                  /\ CreatedAt(files[f].log[a]) <= CreatedAt(files[f].log[b])
  /\ (LivePassDone /\ failed = {}) =>
       \A k \in 1..Len(todos) :
         branches[k].branch = "pull" =>
           \A c \in 1..Len(issues[todos[k].linear_id].comments) :
             issues[todos[k].linear_id].comments[c] > todos[k].synced =>
               [issue |-> todos[k].linear_id, id |-> c] \in LogEntries(todos[k].slot)

\* a pass appended one comment to a Work Log an earlier pass had appended to
C12_Witness ==
  /\ LivePassDone /\ failed = {}
  /\ result.pulled.comments = 1
  /\ \E f \in PresentFiles : Len(files[f].log) = 2

\* C13: whenever a step of syncAll or of the pull command makes a Work Log
\* longer, the file is the one being processed and every appended comment was
\* created strictly after the lastSyncedAt the record was loaded with.
C13_OldCommentsNeverAppended ==
  [][\A f \in FileSlots :
       Len(files'[f].log) > Len(files[f].log) =>
         /\ f = Todo.slot
         /\ \A a \in (Len(files[f].log) + 1)..Len(files'[f].log) :
              CreatedAt(files'[f].log[a]) > Todo.synced]_vars

\* the pull command went through a record whose issue has comments, none of
\* them created after the record's lastSyncedAt, and appended nothing
C13_Witness ==
  /\ pc = "pullCmdList"
  /\ \E k \in 1..Len(todos) :
       /\ todos[k].linear_id # NoLink
       /\ Len(issues[todos[k].linear_id].comments) > 0
       /\ \A c \in 1..Len(issues[todos[k].linear_id].comments) :
            issues[todos[k].linear_id].comments[c] <= todos[k].synced
       /\ files[todos[k].slot].log = <<>>

\* files the directory did not have when the pass loaded it
ImportedNow == PresentFiles \ {todos[k].slot : k \in 1..Len(todos)}

\* C14: after a live pass whose discovery imported k issues into a directory
\* whose largest issue_id was m, the imported files have the issue_ids
\* m+1..m+k in the order of the list call, and no two files of the directory
\* share an issue_id or a name.
C14_ImportNumbering ==
  (LivePassDone /\ failed = {}) =>
    LET m == MaxOf({todos[k].issue_id : k \in 1..Len(todos)})
        k == Cardinality(ImportedNow)
    IN /\ k = result.pulled.created
       /\ {files[f].issue_id : f \in ImportedNow} = (m + 1)..(m + k)
       /\ \A f, g \in ImportedNow :
            files[f].linear_id < files[g].linear_id => files[f].issue_id < files[g].issue_id
       /\ \A f, g \in PresentFiles :
            f # g => /\ files[f].issue_id # files[g].issue_id
                     /\ files[f].name # files[g].name

\* a pass imported two issues into a directory that had a file
C14_Witness ==
  /\ LivePassDone /\ failed = {}
  /\ Len(todos) >= 1
  /\ result.pulled.created = 2
  /\ Cardinality(ImportedNow) = 2

\* C15: every file has linear_id and linear_synced_at both set or both
\* absent, in every state syncAll and the commands reach.
C15_LinkedIffSynced ==
  \A f \in PresentFiles : (files[f].linear_id = NoLink) <=> (files[f].synced = Epoch)

\* a hand-written file was push-created and carries both fields
C15_Witness ==
  /\ Quiet
  /\ \E i \in PresentIssues :
       /\ issues[i].source # 0
       /\ files[issues[i].source].linear_id = i
       /\ files[issues[i].source].synced # Epoch


\* C16: result.conflicts has an entry for a record of the pass exactly when
\* both the remote updatedAt and the file mtime the loop read are later than
\* the record's linear_synced_at and the file's status is not the status
\* mapped from the remote state; it never has two entries for one record.
C16_ConflictEntryIffDiffers ==
  pc \in {"record", "discover", "done"} =>
    \A k \in 1..Len(branches) :
      LET t == todos[k]
          b == branches[k]
          bothChanged == /\ t.linear_id # NoLink /\ b.branch # "error"
                         /\ b.linearUpdated > t.synced /\ b.fileMtime > t.synced
          differs == linearStateToFileStatus(b.state, DefaultConfig) # t.status
      IN Cardinality(EntriesFor(t)) = IF bothChanged /\ differs THEN 1 ELSE 0

C16_Witness ==
  /\ pc = "done"
  /\ \E k \in 1..Len(branches) :
       /\ branches[k].branch = "conflict"
       /\ linearStateToFileStatus(branches[k].state, DefaultConfig) = todos[k].status
       /\ EntriesFor(todos[k]) = {}


\* C17: in the only-file-changed branch of a live pass the update request
\* names exactly the fields among state, priority and title whose value
\* translated from the record differs from the issue pushUpdate fetched, and
\* the issue takes those values; when none differs no request is sent and the
\* issue is left as it is; in both cases the file's linear_synced_at becomes
\* the timestamp pushUpdate took.
C17_PushSendsOnlyDifferences ==
  [][/\ (pc = "pushUpdate" /\ cur.mode = "push" /\ pc' = "pushStamp") =>
          LET issue == issues[Todo.linear_id]
              after == issues'[Todo.linear_id]
              state == fileStatusToLinearState(Todo.status, WorkflowStates, DefaultConfig)
              priority == filePriorityToLinear(Todo.priority, DefaultConfig)
              input == cur'.input
          IN /\ input.stateId <=> (state # NoState /\ state.name # issue.state)
             /\ input.priority <=> (priority # issue.priority)
             /\ input.title <=> (Todo.title # issue.title)
             /\ input.sent <=> (input.stateId \/ input.priority \/ input.title)
             /\ ~input.sent => after = issue
             /\ input.sent =>
                  /\ after.state = IF input.stateId THEN state.name ELSE issue.state
                  /\ after.priority = IF input.priority THEN priority ELSE issue.priority
                  /\ after.title = IF input.title THEN Todo.title ELSE issue.title
     /\ (pc = "pushWrite" /\ cur.mode = "push" /\ pc' # "pushWrite") =>
          /\ files'[Todo.slot].synced = stamp
          /\ stamp >= Todo.synced]_vars

\* a push that found nothing to send has ended and the timestamp moved on
C17_Witness ==
  /\ LivePassDone
  /\ \E k \in 1..Len(branches) :
       /\ branches[k].branch = "push"
       /\ issues[todos[k].linear_id].updatedAt = branches[k].linearUpdated
       /\ files[todos[k].slot].synced > todos[k].synced


C19_DirectionIsSyncBranch ==
  [][(pc = "status" /\ Len(entries') = Len(entries) + 1) =>
       LET entry == entries'[Len(entries')]
           syncedAt == Todo.synced
           linearUpdated == issues[Todo.linear_id].updatedAt
           fileMtime == files[Todo.slot].mtime
       IN (Todo.linear_id # NoLink /\ ~entry.inSync /\ entry.linearStatus # "ERROR") =>
            /\ entry.direction = Classify(syncedAt, linearUpdated, fileMtime)
            /\ entry.direction = "conflict" =>
                 (fileMtime > syncedAt /\ linearUpdated > syncedAt)]_vars


\* C20: no step of getStatus, the catch of a failed fetch included, changes
\* the todos directory or the remote issues.
C20_StatusReadsOnly ==
  [][(pc = "status" \/ pc' = "status") => (files' = files /\ issues' = issues)]_vars

\* getStatus has returned its entries: one for a record whose fetch threw,
\* one for a linked record out of sync
C20_Witness ==
  /\ pc = "idle" /\ Len(entries) > 0 /\ Len(entries) = Len(todos)
  /\ \E k \in 1..Len(entries) : entries[k].linearStatus = "ERROR"
  /\ \E k \in 1..Len(entries) :
       /\ todos[k].linear_id # NoLink /\ entries[k].linearStatus # "ERROR"
       /\ ~entries[k].inSync


\* C21: when a call for one record throws in the loop of the push command
\* (whole directory) or of the pull command and records remain, the command
\* goes on with the next record; the command does not end without its
\* summary.
C21_BatchGoesOn ==
  [][(/\ pc \in {"pushCmd", "pushCmdWrite", "pullCmd", "pullCmdWrite",
                 "pullCmdComments", "pullCmdLog"}
      /\ idx < Len(todos)
      /\ failed' # failed)
     => (idx' = idx + 1 /\ pc' \in {"pushCmd", "pullCmd"})]_vars


\* issues created from the file of a slot
CreatedFrom(f) == {i \in PresentIssues : issues[i].source = f}

\* C22: after a live pass in which every call succeeded, each record that
\* was loaded without linear_id has exactly one issue created from it, its
\* file carries that issue's identifier as linear_id together with a
\* linear_synced_at, and result.pushed.created is the number of such records;
\* no issue was created from a record that was loaded with a linear_id.
C22_CreateOncePerUnlinked ==
  (LivePassDone /\ failed = {}) =>
    /\ \A k \in 1..Len(todos) :
         LET f == todos[k].slot
         IN IF todos[k].linear_id = NoLink
            THEN /\ Cardinality(CreatedFrom(f)) = 1
                 /\ files[f].linear_id \in CreatedFrom(f)
                 /\ files[f].synced # Epoch
            ELSE CreatedFrom(f) \subseteq {todos[k].linear_id}
    /\ result.pushed.created
         = Cardinality({k \in 1..Len(todos) : todos[k].linear_id = NoLink})

\* a live pass over a linked and an unlinked record has ended
C22_Witness ==
  /\ LivePassDone /\ failed = {}
  /\ result.pushed.created = 1
  /\ \E k \in 1..Len(todos) : todos[k].linear_id = NoLink
  /\ \E k \in 1..Len(todos) : todos[k].linear_id # NoLink


\* values of a priority map
Images(map) == {map[k] : k \in DOMAIN map}

\* C23: linearPriorityToFile returns p3 for the unset remote priority 0 and
\* for every remote priority that no local priority maps to under the
\* configured map; filePriorityToLinear returns 3 for a local priority that is
\* not a key of the map.
C23_UnknownPriorityIsNormal ==
  /\ (call.fn = "linearPriorityToFile" /\ call.done) =>
       ((call.args.priority = 0
           \/ call.args.priority \notin Images(PriorityMapOf(call.args.config)))
          => call.ret = "p3")
  /\ (call.fn = "filePriorityToLinear" /\ call.done) =>
       (call.args.priority \notin DOMAIN PriorityMapOf(call.args.config)
          => call.ret = 3)

\* C24: for every status of the enumeration and every list of workflow
\* states that has a state named as the status map names the status,
\* fileStatusToLinearState finds a state, and linearStateToFileStatus of that
\* state's name is the status again.
C24_StatusRoundTrip ==
  (call.fn = "fileStatusToLinearState" /\ call.done) =>
    LET status == call.args.status
        config == call.args.config
        target == MapLookup(StatusMapOf(config), status)
    IN (status \in AllStatuses /\ \E i \in 1..Len(call.args.names) : call.args.names[i] = target)
         => /\ call.ret # NoState
            /\ linearStateToFileStatus(call.ret.name, config) = status

\* the state found is spelled differently from the name in the map
C24_Witness ==
  /\ call.fn = "fileStatusToLinearState" /\ call.done
  /\ call.args.status \in AllStatuses
  /\ \E i \in 1..Len(call.args.names) :
       call.args.names[i] = MapLookup(StatusMapOf(call.args.config), call.args.status)
  /\ call.ret.name # MapLookup(StatusMapOf(call.args.config), call.args.status)

\* C25: for every local priority p1, p2, p3 and every (injective) priority
\* map of the configuration, linearPriorityToFile of filePriorityToLinear of
\* the priority is the priority again.
C25_PriorityRoundTrip ==
  (call.fn = "filePriorityToLinear" /\ call.done /\ call.args.priority \in Priorities) =>
    linearPriorityToFile(call.ret, call.args.config) = call.args.priority

\* C27: renameTodoFile keeps the directory; on a name of four or more
\* tokens it keeps the first token and the tokens from the fourth on and puts
\* newStatus and newPriority second and third; on a shorter name it returns
\* the name as it was; applied again with the same arguments it returns what
\* it returned the first time.
C27_RenameByPosition ==
  (call.fn = "renameTodoFile" /\ call.done) =>
    LET old == call.args.name
        new == call.ret.name
    IN /\ call.ret.dir = call.args.dir
       /\ Len(old) >= 4 =>
            /\ Len(new) = Len(old)
            /\ new[1] = old[1]
            /\ new[2] = call.args.newStatus
            /\ new[3] = call.args.newPriority
            /\ \A i \in 4..Len(old) : new[i] = old[i]
       /\ Len(old) < 4 => new = old
       /\ renameTodoFile(new, call.args.newStatus, call.args.newPriority) = new

\* a name of five tokens was renamed to another status and priority
C27_Witness ==
  /\ call.fn = "renameTodoFile" /\ call.done
  /\ Len(call.args.name) = 5
  /\ call.ret.name # call.args.name
  /\ call.ret.name[2] = "complete"

\* C29: when a team id is configured (LINEAR_TEAM_ID or linear_team_id),
\* resolveConfig returns a configured team id, does not list the teams and
\* does not throw; when none is configured it lists the teams, returns the
\* only team when there is exactly one and throws otherwise.
C29_ExplicitTeamFirst ==
  (call.fn = "resolveConfig" /\ call.done) =>
    LET env == call.args.env
        configured == {env.envTeamId, env.fileTeamId} \ {""}
        n == Len(env.teams)
    IN /\ configured # {} =>
            /\ call.ret.threw = ""
            /\ call.ret.teamId \in configured
            /\ ~call.ret.listed
       /\ configured = {} =>
            /\ call.ret.listed
            /\ n = 1 => (call.ret.threw = "" /\ call.ret.teamId = Teams[env.teams[1]].id)
            /\ n # 1 => call.ret.threw # ""


\* C26: when the remote state maps to no local status, the write of
\* pullStateFromIssue (in syncAll and in the pull command) leaves the file's
\* status and the status token of its name as they were, sets the priority
\* the remote priority maps to (and the priority token when it changed), and
\* sets linear_synced_at to the timestamp taken.
C26_UnresolvedKeepsStatus ==
  [][(/\ pc \in {"pullWrite", "pullCmdWrite"}
      /\ pc' \notin {"pullWrite", "pullCmdWrite", "thrown"}
      /\ linearStateToFileStatus(cur.issue.state, DefaultConfig) = Undefined)
     => LET before == files[Todo.slot]
            after == files'[Todo.slot]
        IN /\ after.present
           /\ after.status = before.status
           /\ after.name[2] = before.name[2]
           /\ after.priority = linearPriorityToFile(cur.issue.priority, DefaultConfig)
           /\ after.priority # before.priority => after.name[3] = after.priority
           /\ after.synced = stamp]_vars

\* the pull command has written a file whose issue is in a state without a
\* local status and whose priority changed
C26_Witness ==
  /\ pc = "pullCmdComments"
  /\ linearStateToFileStatus(cur.issue.state, DefaultConfig) = Undefined
  /\ files[Todo.slot].priority # Todo.priority
  /\ files[Todo.slot].status = Todo.status
  /\ files[Todo.slot].name[3] = files[Todo.slot].priority

\* the issue is in the workflow's cancelled state
CancelledIssue(issue) ==
  /\ CancelledState(WorkflowStates) # NoState
  /\ issue.state = CancelledState(WorkflowStates).name

\* every record of the directory is still there after the step, with its
\* sequence id and its remoteId
RecordsKept ==
  \A f \in PresentFiles :
    \E g \in FileSlots :
      /\ files'[g].present
      /\ files'[g].issue_id = files[f].issue_id
      /\ files[f].linear_id # NoLink => files'[g].linear_id = files[f].linear_id

\* C28: no engine operation removes a local record: after any step the
\* records (by sequence id and by remoteId) are a superset of those before;
\* a pull's write and rename leaves every other file as it was; and a pull
\* of a cancelled remote issue leaves the file in place with status cancelled
C28_NoRecordRemoved ==
  [][/\ RecordsKept
     /\ (pc \in {"pullWrite", "pullCmdWrite"} /\ pc' \notin {pc, "thrown"}) =>
          /\ \A g \in FileSlots \ {Todo.slot} : files'[g] = files[g]
          /\ CancelledIssue(cur.issue) =>
               /\ files'[Todo.slot].present
               /\ files'[Todo.slot].status = "cancelled"]_vars

\* C30: without the credential every subcommand ends at once, skipped: it
\* does not throw, no file and no issue changes, and it fetched and sent
\* nothing
C30_NoKeySkips ==
  [][~apiKey =>
       /\ pc' \in {"idle", "skipped"}
       /\ passes' # passes =>
            /\ pc' = "skipped"
            /\ cur'.mode \in Subcommands
            /\ files' = files /\ issues' = issues
            /\ cur'.fetches = 0 /\ cur'.input = NoInput /\ cur'.created = 0]_vars

\* the cancel subcommand was skipped in a workspace with a linked file
C30_Witness ==
  /\ ~apiKey /\ pc = "skipped" /\ cur.mode = "cancel"
  /\ \E f \in PresentFiles : files[f].linear_id # NoLink

\* C31: a plan never gets the task field linear_id; a create stores the
\* new issue under linear_issue with linear_synced_at; a push of a linked
\* plan keeps linear_issue and refreshes linear_synced_at; and a command
\* creates a remote issue only for a plan without linear_issue
C31_PlanLinkFields ==
  [][/\ \A p \in PlanSlots : plans'[p].linear_id = NoLink
     /\ (pc = "planWrite" /\ pc' = "idle" /\ cur.mode = "create") =>
          /\ cur.created \in PresentIssues
          /\ plans'[Todo.slot].linear_issue = cur.created
          /\ plans'[Todo.slot].synced = stamp
     /\ (pc = "planWrite" /\ pc' = "idle" /\ cur.mode = "push") =>
          /\ plans'[Todo.slot].linear_issue = plans[Todo.slot].linear_issue
          /\ plans'[Todo.slot].synced = stamp
     /\ (passes' # passes /\ PresentIssues' # PresentIssues) =>
          /\ todos'[1].linear_id = NoLink
          /\ Cardinality(PresentIssues') = Cardinality(PresentIssues) + 1]_vars

\* a plan was created remotely and a second command ran on it: still one issue
C31_Witness ==
  /\ pc = "idle" /\ passes = MaxPlanPasses
  /\ Cardinality(PresentPlans) = 1 /\ Cardinality(PresentIssues) = 1
  /\ \E p \in PresentPlans : plans[p].linear_issue \in PresentIssues

\* C32: merging into an existing valid opencode.json, every top-level key
\* of the existing file other than mcp, permission and tools keeps the
\* user's value in the written file; inside mcp, permission and tools every
\* entry the user defined keeps the user's value; and a plugin value stands
\* only under a key or an entry the user did not define
C32_UserKeysWin ==
  (call.fn = "mergeOpenCodeConfig" /\ call.done /\ call.args.file.kind = "json") =>
    LET existing == call.args.file.json
        written == call.ret
    IN /\ \A k \in DOMAIN existing \ GroupKeys :
            k \in DOMAIN written /\ written[k] = existing[k]
       /\ \A k \in DOMAIN existing \cap GroupKeys :
            \A e \in DOMAIN existing[k] :
              k \in DOMAIN written /\ e \in DOMAIN written[k]
                /\ written[k][e] = existing[k][e]
       /\ \A k \in DOMAIN written \ GroupKeys :
            written[k] = "p" => k \notin DOMAIN existing
       /\ \A k \in DOMAIN written \cap GroupKeys :
            \A e \in DOMAIN written[k] :
              written[k][e] = "p" => (k \notin DOMAIN existing \/ e \notin DOMAIN existing[k])

\* s is a prefix of t
IsPrefix(s, t) == Len(s) <= Len(t) /\ \A k \in 1..Len(s) : t[k] = s[k]

\* C33: no backup is ever lost, and whenever a step of writeOpenCodeBundle
\* changes an existing opencode.json or an existing command file, a backup
\* with the content the file had is there when the new content is written
C33_BackupBeforeOverwrite ==
  [][/\ IsPrefix(out.bak, out'.bak) /\ IsPrefix(out.cmdBak, out'.cmdBak)
     /\ ~Quiet =>
          /\ (out.config.kind # "absent" /\ out'.config # out.config) =>
               \E k \in 1..Len(out.bak) : out.bak[k] = out.config
          /\ \A n \in CommandNames :
               (out.commands[n] # NoText /\ out'.commands[n] # out.commands[n]) =>
                 \E k \in 1..Len(out.cmdBak) :
                   out.cmdBak[k] = [name |-> n, content |-> out.commands[n]]]_vars

\* two runs have overwritten opencode.json and a command file of the user
C33_Witness ==
  /\ pc = "idle" /\ call.fn = "writeOpenCodeBundle" /\ call.done
  /\ Len(out.bak) = 2 /\ out.bak[1] # out.bak[2] /\ out.config # out.bak[2]
  /\ \E k \in 1..Len(out.cmdBak) :
       out.cmdBak[k].content = UserText /\ out.commands[out.cmdBak[k].name] # UserText

\* the elements of a sequence are pairwise distinct
Distinct(s) == \A j, k \in 1..Len(s) : j # k => s[j] # s[k]

\* C34: convertClaudeToCursor returns one command per input command and
\* one rule per input agent, and the command names, and the rule names, are
\* pairwise distinct
C34_UniqueNames ==
  (call.fn = "convertClaudeToCursor" /\ call.done) =>
    /\ Len(call.ret.commands) = Len(call.args.commands)
    /\ Len(call.ret.rules) = Len(call.args.agents)
    /\ Distinct(call.ret.commands)
    /\ Distinct(call.ret.rules)

\* plan, workflows:plan and plan-2 came out as plan, plan-2 and plan-2-2
C34_Witness ==
  /\ call.fn = "convertClaudeToCursor" /\ call.done
  /\ call.args.commands = <<[ns |-> "", base |-> <<"plan">>],
                            [ns |-> "workflows", base |-> <<"plan">>],
                            [ns |-> "", base |-> <<"plan", "2">>]>>
  /\ call.ret.commands = <<(<<"plan">>), <<"plan", "2">>, <<"plan", "2", "2">>>>

\* C35: where nobody edits a status, a state or a priority, a push of a
\* linked record (push branch, conflict won by the file, pushUpdate of the
\* push command) leaves the state and the priority of the issue as they were
C35_PushKeepsPulledValues ==
  [][(pc \in {"pushUpdate", "pushCmd"} /\ pc' \in {"pushStamp", "pushCmdStamp"}
        /\ Todo.linear_id # NoLink) =>
       /\ issues'[Todo.linear_id].state = issues[Todo.linear_id].state
       /\ issues'[Todo.linear_id].priority = issues[Todo.linear_id].priority]_vars

\* C36: after a live pass without failures, every comment created after
\* the lastSyncedAt a linked record was loaded with, and before the
\* lastSyncedAt the pass left it with, is in the record's Work Log,
\* whichever branch the record took
C36_NoCommentPassedOver ==
  (LivePassDone /\ failed = {}) =>
    \A k \in 1..Len(todos) :
      todos[k].linear_id # NoLink =>
        \A c \in 1..Len(issues[todos[k].linear_id].comments) :
          (/\ issues[todos[k].linear_id].comments[c] > todos[k].synced
           /\ issues[todos[k].linear_id].comments[c] < files[todos[k].slot].synced) =>
            [issue |-> todos[k].linear_id, id |-> c] \in LogEntries(todos[k].slot)

\* C37: when getStatus is started right after a live syncAll pass that
\* recorded no error, nothing having been edited since the pass began, the
\* entry it builds for every linked record it loads says inSync
C37_InSyncAfterPass ==
  [][(LivePassDone /\ failed = {} /\ pc' = "status") =>
       \A k \in 1..Len(todos') :
         todos'[k].linear_id # NoLink =>
           StatusEntry(todos'[k], issues[todos'[k].linear_id],
                       files[todos'[k].slot].mtime).inSync]_vars

\* the units the record loop of a pass has counted: the four counters the
\* loop increments and the errors it caught for a record
RecordUnits(res) ==
  res.pushed.created + res.pushed.updated + res.pulled.updated + res.skipped
    + Cardinality({k \in 1..Len(res.errors) : res.errors[k].kind # "pull-new"})

\* C38: when a pass, live or dry run, is over, pushed.created,
\* pushed.updated, pulled.updated, skipped and the errors of the records
\* add up to the number of records the pass loaded
C38_OneUnitPerRecord == pc = "done" => RecordUnits(result) = Len(todos)

\* the record loop has just classified the linked record it is at
ClassifiedLinked == pc = "record" /\ Todo.linear_id # NoLink /\ branches' # branches

\* C39: a linked record whose file mtime equals the updatedAt of its issue,
\* both later than lastSyncedAt, is a conflict won by the file: a conflict
\* entry names the file as winner, a live pass goes on to pushUpdate and
\* never pulls, and that pushUpdate leaves the issue with the priority,
\* title and (mapped) state of the file; a record whose mtime and
\* updatedAt both equal lastSyncedAt is counted as skipped and nothing is
\* written on either side
C39_TieGoesToFile ==
  [][/\ (/\ ClassifiedLinked
          /\ issues[Todo.linear_id].updatedAt = files[Todo.slot].mtime
          /\ files[Todo.slot].mtime > Todo.synced) =>
         /\ \A k \in (Len(result.conflicts) + 1)..Len(result'.conflicts) :
              result'.conflicts[k].winner = "file"
         /\ ~dryRun => (pc' = "pushUpdate" /\ cur'.mode = "conflict")
         /\ files' = files /\ issues' = issues
     /\ (/\ pc = "pushUpdate" /\ pc' = "pushStamp" /\ cur.mode = "conflict"
          /\ cur.issue.updatedAt = files[Todo.slot].mtime) =>
         LET state == fileStatusToLinearState(Todo.status, WorkflowStates, DefaultConfig)
         IN /\ issues'[Todo.linear_id].priority = filePriorityToLinear(Todo.priority, DefaultConfig)
            /\ issues'[Todo.linear_id].title = Todo.title
            /\ state # NoState => issues'[Todo.linear_id].state = state.name
            /\ files' = files
     /\ (/\ ClassifiedLinked
          /\ issues[Todo.linear_id].updatedAt = Todo.synced
          /\ files[Todo.slot].mtime = Todo.synced) =>
         /\ result'.skipped = result.skipped + 1
         /\ result'.conflicts = result.conflicts
         /\ pc' \notin {"pushUpdate", "pullState"}
         /\ files' = files /\ issues' = issues]_vars

\* a live pass has skipped a record whose three timestamps were equal and
\* has then overwritten, from the file, an issue whose updatedAt equalled
\* the file's mtime
C39_Witness ==
  /\ pc = "pushStamp" /\ ~dryRun /\ cur.mode = "conflict"
  /\ cur.issue.updatedAt = files[Todo.slot].mtime
  /\ files[Todo.slot].mtime > Todo.synced
  /\ issues[Todo.linear_id] # cur.issue
  /\ issues[Todo.linear_id].pushedBy = Todo.slot
  /\ result.skipped = 1
  /\ \E k \in 1..Len(branches) :
       /\ branches[k].branch = "skip"
       /\ branches[k].linearUpdated = todos[k].synced
       /\ branches[k].fileMtime = todos[k].synced

\* C40: when pushCancel has returned, the issue is in a cancelled
\* workflow state, and it has got one comment when a note was given and
\* none otherwise
C40_CancelCancels ==
  (call.fn = "pushCancel" /\ call.done) =>
    /\ ToLower(call.ret.state) \in {"canceled", "cancelled"}
    /\ Len(call.ret.comments) = IF call.args.comment THEN 1 ELSE 0
====
